---- MODULE Spec2Model ----
(***************************************************************************)
(* Family-tree core of surplux/familyTtree: the graph normalizer           *)
(* (normalizeData, both revisions kept in src/script.js), the              *)
(* relationship resolver (relationFromAToB and its helpers), and the       *)
(* handlers that edit, import, load and persist the graph, with the        *)
(* server of src/api.                                                      *)
(*                                                                         *)
(* A graph is the object data = { people: { id: person } }.  The people    *)
(* table is a function from keys to person records; a person record holds  *)
(* the three relationship arrays (JavaScript arrays are sequences: order   *)
(* and duplicates are kept) and the gender.  Ids are small integers, whose *)
(* Object.values iteration order in JavaScript is ascending numeric order. *)
(* An absent array reads as [] through the code's `x || []`, so an absent  *)
(* array and an empty one are the same value here.  Every person is stored *)
(* under its own id (the documented shape of data, src/script.js:452-453). *)
(***************************************************************************)
EXTENDS Integers, Sequences, FiniteSets, TLC

VARIABLES
    people,      \* data.people: key -> [parents, spouses, children, gender]
    hasPeople,   \* FALSE when the data object has no people collection
    phase,       \* "raw" (as authored / imported), "normalized", "threw";
                 \* in the application: "idle", "waiting" (a fetch is awaited)
    runs,        \* number of normalizeData calls made on this graph
    before,      \* data.people as it was when the last normalizeData call began;
                 \* in the application: when the last handler began
    beforeHas,   \* whether data had a people collection at that moment
    rev,         \* revision of normalizeData that ran last: "none", "local", "api"
    qa, qb,      \* the pair handed to relationFromAToB (0: no query yet)
    res,         \* result of the last query: [type, label, greats, k, r]
    isAdmin,     \* the client's administrator flag
    adminKey,    \* localStorage 'adminKey' of the client ("": absent)
    serverKey,   \* process.env.ADMIN_KEY of the server ("": not configured)
    stored,      \* the persisted document: <<>> (none) or <<people table>>
    net,         \* the fetch in flight and its response
    ran,         \* the handler that ran last and what it did
    steps,       \* number of user events handled so far
    walk         \* the loop of a traversal in progress: its local variables

appVars == <<isAdmin, adminKey, serverKey, stored, net, ran, steps, walk>>

vars == <<people, hasPeople, phase, runs, before, beforeHas, rev, qa, qb, res,
          isAdmin, adminKey, serverKey, stored, net, ran, steps, walk>>

(***************************************************************************)
(* Bounds of the model.                                                    *)
(***************************************************************************)
NumPeople == 2       \* keys of the people table in the normalizer runs: 1..NumPeople
MaxEntries == 3      \* array entries authored in a raw graph
MaxRuns == 2         \* normalizeData calls followed on one graph

Keys == 1..NumPeople
Ids == 1..(NumPeople + 1)      \* one id more than there are people: a dangling id
Fields == {"parents", "spouses", "children"}

NoResult == [type |-> "none", label |-> "", greats |-> 0, k |-> 0, r |-> 0]

\* no fetch in flight; body and reply hold <<>> or <<people table>>
NoNet == [req |-> "none", to |-> "", key |-> "", body |-> <<>>, status |-> 0, reply |-> <<>>]

\* no handler has run yet; alerts are the messages shown, posts the number of
\* persist requests issued, stored0 the persisted document when it began
NoOp == [op |-> "none", id |-> 0, alerts |-> <<>>, posts |-> 0, stored0 |-> <<>>,
         status |-> 0, end |-> "done", arg |-> ""]

\* no traversal in progress
NoWalk == [fn |-> "none", frontier |-> <<>>, seen |-> {}, gen |-> 0, map |-> <<>>,
           prev |-> <<>>, path |-> <<>>, visits |-> <<>>]

\* the application part of the state where only a graph is looked at
NoApp ==
    /\ isAdmin = FALSE
    /\ adminKey = ""
    /\ serverKey = ""
    /\ stored = <<>>
    /\ net = NoNet
    /\ ran = NoOp
    /\ steps = 0
    /\ walk = NoWalk

Range(s) == {s[i] : i \in DOMAIN s}

(***************************************************************************)
(* Utilities of src/script.js.                                             *)
(***************************************************************************)
\* dedupe = arr => Array.from(new Set(arr || [])): first occurrences, in order
RECURSIVE dedupe(_)
dedupe(arr) ==
    IF arr = <<>> THEN <<>>
    ELSE LET front == dedupe(SubSeq(arr, 1, Len(arr) - 1))
             last == arr[Len(arr)]
         IN  IF last \in Range(front) THEN front ELSE Append(front, last)

\* exists = (id, data) => !!data.people[id]
exists(id, ppl) == id \in DOMAIN ppl

\* arr.filter(id => exists(id, data))
filterExists(arr, ppl) == SelectSeq(arr, LAMBDA id : exists(id, ppl))

\* Object.values(data.people): the keys in iteration order
RECURSIVE SortedSeq(_)
SortedSeq(S) ==
    IF S = {} THEN <<>>
    ELSE LET m == CHOOSE x \in S : \A y \in S : x <= y
         IN  <<m>> \o SortedSeq(S \ {m})

KeyOrder(ppl) == SortedSeq(DOMAIN ppl)

(***************************************************************************)
(* normalizeData, local-storage revision (src/script.js:8-38).             *)
(***************************************************************************)
\* lines 12-17: one child's parents.forEach
RECURSIVE LocalAddChild(_, _, _)
LocalAddChild(ppl, child, pids) ==
    IF pids = <<>> THEN ppl
    ELSE LET pid == Head(pids)
             nxt == IF exists(pid, ppl)
                    THEN [ppl EXCEPT ![pid].children = dedupe(Append(@, child))]
                    ELSE ppl
         IN  LocalAddChild(nxt, child, Tail(pids))

\* lines 11-18: Object.values(data.people).forEach(child => ...)
RECURSIVE LocalRebuildChildren(_, _)
LocalRebuildChildren(ppl, keys) ==
    IF keys = <<>> THEN ppl
    ELSE LocalRebuildChildren(LocalAddChild(ppl, Head(keys), ppl[Head(keys)].parents),
                              Tail(keys))

\* lines 22-27: one person's spouses.forEach
RECURSIVE LocalAddSpouse(_, _, _)
LocalAddSpouse(ppl, p, sids) ==
    IF sids = <<>> THEN ppl
    ELSE LET sid == Head(sids)
             nxt == IF exists(sid, ppl)
                    THEN [ppl EXCEPT ![sid].spouses = dedupe(Append(@, p))]
                    ELSE ppl
         IN  LocalAddSpouse(nxt, p, Tail(sids))

\* lines 21-28: Object.values(data.people).forEach(p => ...)
RECURSIVE LocalSpouseSymmetry(_, _)
LocalSpouseSymmetry(ppl, keys) ==
    IF keys = <<>> THEN ppl
    ELSE LocalSpouseSymmetry(LocalAddSpouse(ppl, Head(keys), ppl[Head(keys)].spouses),
                             Tail(keys))

\* hygiene that dedupes but forgets the exists filter
LocalHygieneNoFilter(ppl) ==
    [k \in DOMAIN ppl |->
        [ppl[k] EXCEPT !.parents = dedupe(@),
                       !.children = dedupe(@),
                       !.spouses = dedupe(@)]]

\* lines 30-36: hygiene
LocalHygiene(ppl) ==
    [k \in DOMAIN ppl |->
        [ppl[k] EXCEPT !.parents = dedupe(filterExists(@, ppl)),
                       !.children = dedupe(filterExists(@, ppl)),
                       !.spouses = dedupe(filterExists(@, ppl))]]

normalizeDataLocal(ppl) ==
    LET cleared == [k \in DOMAIN ppl |-> [ppl[k] EXCEPT !.children = <<>>]]
        rebuilt == LocalRebuildChildren(cleared, KeyOrder(cleared))
        deduped == [k \in DOMAIN ppl |-> [rebuilt[k] EXCEPT !.spouses = dedupe(@)]]
        symmetric == LocalSpouseSymmetry(deduped, KeyOrder(deduped))
    IN  LocalHygiene(symmetric)

(***************************************************************************)
(* normalizeData, API revision (src/script.js:483-513, also                *)
(* src/unnamed/part_000:31-65).                                            *)
(***************************************************************************)
\* first pass that forgets p.children = []
ApiCleanKeepChildren(ppl) ==
    [k \in DOMAIN ppl |->
        [ppl[k] EXCEPT !.parents = filterExists(dedupe(@), ppl),
                       !.spouses = filterExists(dedupe(@), ppl)]]

\* lines 485-489
ApiClean(ppl) ==
    [k \in DOMAIN ppl |->
        [ppl[k] EXCEPT !.children = <<>>,
                       !.parents = filterExists(dedupe(@), ppl),
                       !.spouses = filterExists(dedupe(@), ppl)]]

\* lines 492-498: one child's parents.forEach
RECURSIVE ApiPushChild(_, _, _)
ApiPushChild(ppl, child, pids) ==
    IF pids = <<>> THEN ppl
    ELSE LET pid == Head(pids)
             nxt == IF exists(pid, ppl)
                    THEN [ppl EXCEPT ![pid].children = Append(@, child)]
                    ELSE ppl
         IN  ApiPushChild(nxt, child, Tail(pids))

\* lines 491-499
RECURSIVE ApiRebuildChildren(_, _)
ApiRebuildChildren(ppl, keys) ==
    IF keys = <<>> THEN ppl
    ELSE ApiRebuildChildren(ApiPushChild(ppl, Head(keys), ppl[Head(keys)].parents),
                            Tail(keys))

\* lines 501-503
ApiDedupeChildren(ppl) ==
    [k \in DOMAIN ppl |-> [ppl[k] EXCEPT !.children = filterExists(dedupe(@), ppl)]]

\* spouse pass that pushes without the includes test
RECURSIVE ApiPushSpouseAlways(_, _, _)
ApiPushSpouseAlways(ppl, p, sids) ==
    IF sids = <<>> THEN ppl
    ELSE LET sid == Head(sids)
             nxt == IF exists(sid, ppl)
                    THEN [ppl EXCEPT ![sid].spouses = Append(@, p)]
                    ELSE ppl
         IN  ApiPushSpouseAlways(nxt, p, Tail(sids))

\* spouse pass that never writes the back edge
ApiPushSpouseNever(ppl, p, sids) == ppl

\* lines 506-511: one person's spouses.forEach
RECURSIVE ApiPushSpouse(_, _, _)
ApiPushSpouse(ppl, p, sids) ==
    IF sids = <<>> THEN ppl
    ELSE LET sid == Head(sids)
             nxt == IF exists(sid, ppl) /\ p \notin Range(ppl[sid].spouses)
                    THEN [ppl EXCEPT ![sid].spouses = Append(@, p)]
                    ELSE ppl
         IN  ApiPushSpouse(nxt, p, Tail(sids))

\* lines 505-512
RECURSIVE ApiSpouseSymmetry(_, _)
ApiSpouseSymmetry(ppl, keys) ==
    IF keys = <<>> THEN ppl
    ELSE ApiSpouseSymmetry(ApiPushSpouse(ppl, Head(keys), ppl[Head(keys)].spouses),
                           Tail(keys))

normalizeDataApi(ppl) ==
    LET cleaned == ApiClean(ppl)
        rebuilt == ApiRebuildChildren(cleaned, KeyOrder(cleaned))
        deduped == ApiDedupeChildren(rebuilt)
    IN  ApiSpouseSymmetry(deduped, KeyOrder(deduped))

(***************************************************************************)
(* Raw graphs: what a stored or imported document may hold before it is    *)
(* normalized.  A raw graph is given by the array entries written into it. *)
(***************************************************************************)
RawEntry == [p : Keys, f : Fields, id : Ids]

EmptyPerson == [parents |-> <<>>, spouses |-> <<>>, children |-> <<>>, gender |-> ""]

RECURSIVE RawGraph(_, _)
RawGraph(es, n) ==
    IF n = 0 THEN [k \in Keys |-> EmptyPerson]
    ELSE LET g == RawGraph(es, n - 1)
             e == es[n]
         IN  [g EXCEPT ![e.p][e.f] = Append(@, e.id)]

InitNorm ==
    /\ hasPeople \in BOOLEAN
    /\ IF hasPeople
       THEN \E n \in 0..MaxEntries : \E es \in [1..n -> RawEntry] : people = RawGraph(es, n)
       ELSE people = <<>>
    /\ phase = "raw"
    /\ runs = 0
    /\ before = people
    /\ beforeHas = hasPeople
    /\ rev = "none"
    /\ qa = 0 /\ qb = 0
    /\ res = NoResult
    /\ NoApp

\* normalizeData(data) in the local-storage revision: Object.values(undefined)
\* throws a TypeError when data has no people collection.
NormalizeLocal ==
    /\ phase \in {"raw", "normalized"}
    /\ runs < MaxRuns
    /\ IF hasPeople
       THEN /\ people' = normalizeDataLocal(people)
            /\ phase' = "normalized"
       ELSE /\ people' = people
            /\ phase' = "threw"
    /\ runs' = runs + 1
    /\ before' = people
    /\ beforeHas' = hasPeople
    /\ rev' = "local"
    /\ UNCHANGED <<hasPeople, qa, qb, res>>
    /\ UNCHANGED appVars

\* normalizeData(d) in the API revision: if (!d.people) d.people = {}
NormalizeApi ==
    /\ phase \in {"raw", "normalized"}
    /\ runs < MaxRuns
    /\ people' = normalizeDataApi(people)
    /\ hasPeople' = TRUE
    /\ phase' = "normalized"
    /\ runs' = runs + 1
    /\ before' = people
    /\ beforeHas' = hasPeople
    /\ rev' = "api"
    /\ UNCHANGED <<qa, qb, res>>
    /\ UNCHANGED appVars

NextNorm == NormalizeLocal \/ NormalizeApi

SpecNorm == InitNorm /\ [][NextNorm]_vars

(***************************************************************************)
(* Relationship resolver (src/script.js:258-405).  Every operator takes    *)
(* the people table it reads; the code reads the global data.              *)
(***************************************************************************)
GenCap == 12         \* generationsUpTo: while (frontier.length && gen < 12)
AncLimit == 8        \* cousinLabel: ancestorMap(a, 8)

\* data.people[id]?.parents || []
parentsOf(ppl, id) == IF exists(id, ppl) THEN ppl[id].parents ELSE <<>>

\* a choice between two terms only: whoever is not male gets the female term
byGenderTwoWay(g, m, f, n) == IF g = "male" THEN m ELSE f

\* A.gender === 'male' ? m : A.gender === 'female' ? f : n
byGender(g, m, f, n) == IF g = "male" THEN m ELSE IF g = "female" THEN f ELSE n

\* a comparison of the first listed parents only
shareFirstParent(ppl, a, b) ==
    /\ ppl[a].parents # <<>>
    /\ ppl[b].parents # <<>>
    /\ ppl[a].parents[1] = ppl[b].parents[1]

\* shareAParent(a, b), lines 334-338
shareAParent(ppl, a, b) ==
    LET pA == Range(ppl[a].parents)
        pB == Range(ppl[b].parents)
    IN  \E x \in pA : x \in pB

\* the inner loop `for (const p of parents)` of both upward walks: the
\* unvisited parents are marked and pushed, in order.  st = [next, seen]
RECURSIVE pushUnseen(_, _)
pushUnseen(ps, st) ==
    IF ps = <<>> THEN st
    ELSE LET q == Head(ps)
         IN  pushUnseen(Tail(ps),
                        IF q \in st.seen THEN st
                        ELSE [next |-> Append(st.next, q), seen |-> st.seen \cup {q}])

\* the loop `for (const id of frontier)` of both upward walks
RECURSIVE expandFrontier(_, _, _)
expandFrontier(ppl, frontier, st) ==
    IF frontier = <<>> THEN st
    ELSE expandFrontier(ppl, Tail(frontier), pushUnseen(parentsOf(ppl, Head(frontier)), st))

\* generationsUpTo(x, y), lines 340-352: the while loop from a given frontier
RECURSIVE generationsLoop(_, _, _, _, _)
generationsLoop(ppl, y, frontier, visited, gen) ==
    IF frontier = <<>> \/ ~(gen < GenCap) THEN 0
    ELSE IF y \in Range(frontier) THEN gen
    ELSE LET st == expandFrontier(ppl, frontier, [next |-> <<>>, seen |-> visited])
         IN  generationsLoop(ppl, y, st.next, st.seen, gen + 1)

generationsUpTo(ppl, x, y) == generationsLoop(ppl, y, <<x>>, {x}, 0)

\* ancestorMap(x, limit), lines 370-385: the Map as the sequence of its
\* entries [id, gen] in insertion order
RECURSIVE ancestorLoop(_, _, _, _, _, _)
ancestorLoop(ppl, limit, frontier, seen, gen, map) ==
    IF frontier = <<>> \/ ~(gen <= limit) THEN map
    ELSE LET st == expandFrontier(ppl, frontier, [next |-> <<>>, seen |-> seen])
             added == [i \in 1..Len(st.next) |-> [id |-> st.next[i], gen |-> gen + 1]]
         IN  ancestorLoop(ppl, limit, st.next, st.seen, gen + 1, map \o added)

ancestorMap(ppl, x, limit) == ancestorLoop(ppl, limit, <<x>>, {x}, 0, <<>>)

\* ancB.has(id), ancB.get(id)
mapHas(map, id) == \E i \in DOMAIN map : map[i].id = id
mapGet(map, id) == map[CHOOSE i \in DOMAIN map : map[i].id = id].gen

NoBest == [id |-> 0, genA |-> 0, genB |-> 0]

\* a scan of ancA that keeps the first common ancestor it meets
RECURSIVE bestCommonFirst(_, _, _)
bestCommonFirst(ancA, ancB, best) ==
    IF ancA = <<>> THEN best
    ELSE LET e == Head(ancA)
         IN  IF mapHas(ancB, e.id)
             THEN [id |-> e.id, genA |-> e.gen, genB |-> mapGet(ancB, e.id)]
             ELSE bestCommonFirst(Tail(ancA), ancB, best)

\* lines 357-362: the scan of ancA that keeps the first entry of least genA + genB
RECURSIVE bestCommon(_, _, _)
bestCommon(ancA, ancB, best) ==
    IF ancA = <<>> THEN best
    ELSE LET e == Head(ancA)
             cand == [id |-> e.id, genA |-> e.gen, genB |-> mapGet(ancB, e.id)]
             nxt == IF mapHas(ancB, e.id)
                    THEN IF best # NoBest
                         THEN IF cand.genA + cand.genB < best.genA + best.genB
                              THEN cand ELSE best
                         ELSE cand
                    ELSE best
         IN  bestCommon(Tail(ancA), ancB, nxt)

Min(x, y) == IF x < y THEN x ELSE y
Abs(x) == IF x < 0 THEN -x ELSE x

\* ['', 'first', ..., 'eighth'][k] || `${k}th`, followed by ' cousin'
OrdinalCousin ==
    <<"first cousin", "second cousin", "third cousin", "fourth cousin",
      "fifth cousin", "sixth cousin", "seventh cousin", "eighth cousin">>

NoCousin == [found |-> FALSE, label |-> "", k |-> 0, r |-> 0]

\* cousinLabel without the test k < 1
cousinLabelNoGuard(ppl, a, b) ==
    LET ancA == ancestorMap(ppl, a, AncLimit)
        ancB == ancestorMap(ppl, b, AncLimit)
        best == bestCommon(ancA, ancB, NoBest)
        k == Min(best.genA, best.genB) - 1
        r == Abs(best.genA - best.genB)
    IN  IF best = NoBest THEN NoCousin
        ELSE [found |-> TRUE,
              label |-> IF k \in DOMAIN OrdinalCousin THEN OrdinalCousin[k] ELSE "kth cousin",
              k |-> k, r |-> r]

\* cousinLabel(a, b), lines 353-369; the text `${r}x removed` is the field r
cousinLabel(ppl, a, b) ==
    LET ancA == ancestorMap(ppl, a, AncLimit)
        ancB == ancestorMap(ppl, b, AncLimit)
        best == bestCommon(ancA, ancB, NoBest)
        k == Min(best.genA, best.genB) - 1
        r == Abs(best.genA - best.genB)
    IN  IF best = NoBest THEN NoCousin
        ELSE IF k < 1 THEN NoCousin
        ELSE [found |-> TRUE,
              label |-> IF k \in DOMAIN OrdinalCousin THEN OrdinalCousin[k] ELSE "kth cousin",
              k |-> k, r |-> r]

\* findPath(a, b), lines 386-405.  st = [queue, seen, prev, path]; path is <<>>
\* until b is found
RECURSIVE pathBack(_, _, _, _)
pathBack(prev, a, t, path) ==
    IF t = a THEN path ELSE pathBack(prev, a, prev[t], <<prev[t]>> \o path)

\* scanNeighbors without the seen test on the queue: a neighbour met again
\* is queued again
RECURSIVE scanNeighborsRequeue(_, _, _, _, _, _)
scanNeighborsRequeue(ppl, a, b, cur, ns, st) ==
    IF ns = <<>> \/ st.path # <<>> THEN st
    ELSE LET n == Head(ns)
             nxt == IF ~exists(n, ppl) THEN st
                    ELSE IF n \in st.seen THEN [st EXCEPT !.queue = Append(@, n)]
                    ELSE LET prev == [x \in DOMAIN st.prev \cup {n} |->
                                         IF x = n THEN cur ELSE st.prev[x]]
                         IN  IF n = b
                             THEN [st EXCEPT !.seen = @ \cup {n}, !.prev = prev,
                                             !.path = pathBack(prev, a, b, <<b>>)]
                             ELSE [st EXCEPT !.seen = @ \cup {n}, !.prev = prev,
                                             !.queue = Append(@, n)]
         IN  scanNeighborsRequeue(ppl, a, b, cur, Tail(ns), nxt)

RECURSIVE scanNeighbors(_, _, _, _, _, _)
scanNeighbors(ppl, a, b, cur, ns, st) ==
    IF ns = <<>> \/ st.path # <<>> THEN st
    ELSE LET n == Head(ns)
             nxt == IF ~exists(n, ppl) \/ n \in st.seen THEN st
                    ELSE LET prev == [x \in DOMAIN st.prev \cup {n} |->
                                         IF x = n THEN cur ELSE st.prev[x]]
                         IN  IF n = b
                             THEN [st EXCEPT !.seen = @ \cup {n}, !.prev = prev,
                                             !.path = pathBack(prev, a, b, <<b>>)]
                             ELSE [st EXCEPT !.seen = @ \cup {n}, !.prev = prev,
                                             !.queue = Append(@, n)]
         IN  scanNeighbors(ppl, a, b, cur, Tail(ns), nxt)

RECURSIVE findPathLoop(_, _, _, _)
findPathLoop(ppl, a, b, st) ==
    IF st.path # <<>> THEN st.path
    ELSE IF st.queue = <<>> THEN <<>>
    ELSE LET cur == Head(st.queue)
             neighbors == ppl[cur].parents \o ppl[cur].spouses \o ppl[cur].children
         IN  findPathLoop(ppl, a, b,
                 scanNeighbors(ppl, a, b, cur, neighbors, [st EXCEPT !.queue = Tail(@)]))

\* findPath that looks at the neighbours of a only
findPathOneStep(ppl, a, b) ==
    IF a = b THEN <<a>>
    ELSE IF b \in Range(ppl[a].parents \o ppl[a].spouses \o ppl[a].children)
    THEN <<a, b>>
    ELSE <<>>

\* <<>> stands for null
findPath(ppl, a, b) ==
    IF a = b THEN <<a>>
    ELSE findPathLoop(ppl, a, b,
            [queue |-> <<a>>, seen |-> {a}, prev |-> <<>>, path |-> <<>>])

\* {type, label}; 'great-'.repeat(up - 2) of lines 285-287 and 296-298 is the
\* field greats
Result(type, label, greats) ==
    [type |-> type, label |-> label, greats |-> greats, k |-> 0, r |-> 0]

\* lines 259-276 with the child rule left out
directRelationNoChild(ppl, aId, bId) ==
    IF aId = bId THEN Result("self", "the same person", 0)
    ELSE IF bId \in Range(ppl[aId].spouses)
    THEN Result("spouse", byGender(ppl[aId].gender, "husband", "wife", "spouse"), 0)
    ELSE IF aId \in Range(ppl[bId].parents)
    THEN Result("ancestor", byGender(ppl[aId].gender, "father", "mother", "parent"), 0)
    ELSE NoResult

\* lines 259-276 with the parent and child rules ahead of the spouse rule
directRelationParentFirst(ppl, aId, bId) ==
    IF aId = bId THEN Result("self", "the same person", 0)
    ELSE IF aId \in Range(ppl[bId].parents)
    THEN Result("ancestor", byGender(ppl[aId].gender, "father", "mother", "parent"), 0)
    ELSE IF bId \in Range(ppl[aId].parents)
    THEN Result("descendant", byGender(ppl[aId].gender, "son", "daughter", "child"), 0)
    ELSE IF bId \in Range(ppl[aId].spouses)
    THEN Result("spouse", byGender(ppl[aId].gender, "husband", "wife", "spouse"), 0)
    ELSE NoResult

\* relationFromAToB, lines 259-276: self, spouse, direct parent, direct child
\* (NoResult: no return yet)
directRelation(ppl, aId, bId) ==
    IF aId = bId THEN Result("self", "the same person", 0)
    ELSE IF bId \in Range(ppl[aId].spouses)
    THEN Result("spouse", byGender(ppl[aId].gender, "husband", "wife", "spouse"), 0)
    ELSE IF aId \in Range(ppl[bId].parents)
    THEN Result("ancestor", byGender(ppl[aId].gender, "father", "mother", "parent"), 0)
    ELSE IF bId \in Range(ppl[aId].parents)
    THEN Result("descendant", byGender(ppl[aId].gender, "son", "daughter", "child"), 0)
    ELSE NoResult

\* farRelation with a single 'great-' for every distance above 2
farRelationOneGreat(ppl, aId, bId) ==
    LET upA == generationsUpTo(ppl, aId, bId)
        upB == generationsUpTo(ppl, bId, aId)
        g == ppl[aId].gender
    IN  IF upA > 1
        THEN Result("ancestor", byGender(g, "grandfather", "grandmother", "grandparent"),
                    Min(upA - 2, 1))
        ELSE IF upB > 1
        THEN Result("descendant", byGender(g, "grandson", "granddaughter", "grandchild"),
                    Min(upB - 2, 1))
        ELSE NoResult

\* relationFromAToB, lines 278-300: ancestor / descendant, farther
farRelation(ppl, aId, bId) ==
    LET upA == generationsUpTo(ppl, aId, bId)
        upB == generationsUpTo(ppl, bId, aId)
        g == ppl[aId].gender
    IN  IF upA > 1
        THEN Result("ancestor", byGender(g, "grandfather", "grandmother", "grandparent"),
                    upA - 2)
        ELSE IF upB > 1
        THEN Result("descendant", byGender(g, "grandson", "granddaughter", "grandchild"),
                    upB - 2)
        ELSE NoResult

\* collateralRelation with the labels of the two avuncular rules exchanged
collateralRelationSwapped(ppl, aId, bId) ==
    LET A == ppl[aId]
        B == ppl[bId]
    IN  IF shareAParent(ppl, aId, bId)
        THEN Result("sibling", byGender(A.gender, "brother", "sister", "sibling"), 0)
        ELSE IF \E i \in DOMAIN B.parents : shareAParent(ppl, aId, B.parents[i])
        THEN Result("avuncular", byGender(A.gender, "nephew", "niece", "niece/nephew"), 0)
        ELSE IF \E i \in DOMAIN A.parents : shareAParent(ppl, bId, A.parents[i])
        THEN Result("avuncular", byGender(A.gender, "uncle", "aunt", "aunt/uncle"), 0)
        ELSE NoResult

\* relationFromAToB, lines 302-320: siblings, aunt/uncle, niece/nephew
collateralRelation(ppl, aId, bId) ==
    LET A == ppl[aId]
        B == ppl[bId]
    IN  IF shareAParent(ppl, aId, bId)
        THEN Result("sibling", byGender(A.gender, "brother", "sister", "sibling"), 0)
        ELSE IF \E i \in DOMAIN B.parents : shareAParent(ppl, aId, B.parents[i])
        THEN Result("avuncular", byGender(A.gender, "uncle", "aunt", "aunt/uncle"), 0)
        ELSE IF \E i \in DOMAIN A.parents : shareAParent(ppl, bId, A.parents[i])
        THEN Result("avuncular", byGender(A.gender, "nephew", "niece", "niece/nephew"), 0)
        ELSE NoResult

\* relationFromAToB, lines 322-330: cousins, path, unrelated
distantRelation(ppl, aId, bId) ==
    LET cousin == cousinLabel(ppl, aId, bId)
    IN  IF cousin.found
        THEN [type |-> "cousin", label |-> cousin.label, greats |-> 0,
              k |-> cousin.k, r |-> cousin.r]
        ELSE IF findPath(ppl, aId, bId) # <<>>
        THEN Result("related", "related", 0)
        ELSE Result("unrelated", "unrelated", 0)

\* relationFromAToB(aId, bId), lines 258-331: role of A relative to B; each
\* part returns as soon as one of its rules matches
relationFromAToB(ppl, aId, bId) ==
    LET direct == directRelation(ppl, aId, bId)
        far == farRelation(ppl, aId, bId)
        collateral == collateralRelation(ppl, aId, bId)
    IN  IF direct # NoResult THEN direct
        ELSE IF far # NoResult THEN far
        ELSE IF collateral # NoResult THEN collateral
        ELSE distantRelation(ppl, aId, bId)

(***************************************************************************)
(* Queries on a loaded graph.  The graph is a stored document after the    *)
(* normalizeData call made at start-up (src/script.js:41-55); the query is *)
(* compareBtn.onclick (src/script.js:243-255), which calls                 *)
(* relationFromAToB for two existing persons.                              *)
(***************************************************************************)
RelPeople == 3       \* persons of a document with an arbitrary parent relation
RelEdges == 3        \* parent entries of such a document
TreePeople == 6      \* persons of a document with an acyclic parent relation
TreeEdges == 6       \* parent entries of such a document

Genders == <<"male", "female", "", "other">>
GenderOf(i) == Genders[((i - 1) % 4) + 1]

\* the subsets of the set of numbers S that have at most k elements
RECURSIVE SubsetsUpTo(_, _)
SubsetsUpTo(S, k) ==
    IF k = 0 THEN {{}}
    ELSE LET T == SubsetsUpTo(S, k - 1)
             full == {t \in T : Cardinality(t) = k - 1}
         IN  T \cup UNION {{t \cup {e} : e \in {x \in S : \A y \in t : x > y}} : t \in full}

\* the entry "id is listed by person p" as a number, for n persons
Entry(n, p, id) == (p - 1) * n + id

\* the document with parent entries E and spouse entries Sp
Document(n, E, Sp) ==
    [i \in 1..n |->
        [parents |-> SortedSeq({q \in 1..n : Entry(n, i, q) \in E}),
         spouses |-> SortedSeq({q \in 1..n : Entry(n, i, q) \in Sp}),
         children |-> <<>>,
         gender |-> GenderOf(i)]]

\* data = JSON.parse(localStorage...); data = normalizeData(data), lines 41-55
Loaded(doc) ==
    /\ before = doc
    /\ people = normalizeDataLocal(doc)
    /\ hasPeople = TRUE
    /\ beforeHas = TRUE
    /\ phase = "normalized"
    /\ runs = 1
    /\ rev = "local"
    /\ qa = 0 /\ qb = 0
    /\ res = NoResult
    /\ NoApp

\* compareBtn.onclick, lines 243-255
Compare(a, b) ==
    /\ phase = "normalized"
    /\ exists(a, people) /\ exists(b, people)
    /\ qa' = a
    /\ qb' = b
    /\ res' = relationFromAToB(people, a, b)
    /\ UNCHANGED <<people, hasPeople, phase, runs, before, beforeHas, rev>>
    /\ UNCHANGED appVars

\* Documents with any parent relation (cycles and self-parents included) and
\* at most one spouse entry, over RelPeople persons; any pair is compared.
AnyEdges == {Entry(RelPeople, p, q) : p, q \in 1..RelPeople}
SpouseChoices ==
    {{}} \cup {{Entry(RelPeople, e[1], e[2])} :
                  e \in {x \in (1..RelPeople) \X (1..RelPeople) : x[1] < x[2]}}

InitRel ==
    \E E \in SubsetsUpTo(AnyEdges, RelEdges), Sp \in SpouseChoices :
        Loaded(Document(RelPeople, E, Sp))

NextRel == \E a, b \in DOMAIN people : Compare(a, b)

SpecRel == InitRel /\ [][NextRel]_vars

\* Documents with an acyclic parent relation over TreePeople persons (a parent
\* has a greater id than its child, so persons 1 and 2 head the youngest
\* generation); persons 1 and 2 are compared, in either role.
TreeEdgeSet ==
    {Entry(TreePeople, e[1], e[2]) : e \in {x \in (1..TreePeople) \X (1..TreePeople) : x[1] < x[2]}}

InitTree ==
    \E E \in SubsetsUpTo(TreeEdgeSet, TreeEdges) : Loaded(Document(TreePeople, E, {}))

NextTree == Compare(1, 2) \/ Compare(2, 1)

SpecTree == InitTree /\ [][NextTree]_vars

\* Documents with an acyclic parent relation over LabelPeople persons and at
\* most a spouse entry between persons 1 and 2, where persons 1 and 2 have any
\* of the genders the form offers or none; persons 1 and 2 are compared, in
\* either role.
LabelPeople == 4     \* persons of such a document
LabelEdges == 4      \* parent entries of such a document

LabelEdgeSet ==
    {Entry(LabelPeople, e[1], e[2]) :
        e \in {x \in (1..LabelPeople) \X (1..LabelPeople) : x[1] < x[2]}}

\* the document doc where persons 1 and 2 have genders g1 and g2
Gendered(doc, g1, g2) == [doc EXCEPT ![1].gender = g1, ![2].gender = g2]

InitLabel ==
    \E E \in SubsetsUpTo(LabelEdgeSet, LabelEdges),
       Sp \in {{}, {Entry(LabelPeople, 1, 2)}},
       g1, g2 \in Range(Genders) :
        Loaded(Gendered(Document(LabelPeople, E, Sp), g1, g2))

SpecLabel == InitLabel /\ [][NextTree]_vars

\* Documents with an acyclic parent relation over LinePeople persons, long
\* enough for lines of several generations; person 1, who heads the youngest
\* generation, is compared with everybody, in either role.
LinePeople == 5      \* persons of such a document
LineEdges == 5       \* parent entries of such a document

LineEdgeSet ==
    {Entry(LinePeople, e[1], e[2]) :
        e \in {x \in (1..LinePeople) \X (1..LinePeople) : x[1] < x[2]}}

InitLine ==
    \E E \in SubsetsUpTo(LineEdgeSet, LineEdges) : Loaded(Document(LinePeople, E, {}))

NextLine == \E b \in DOMAIN people : Compare(1, b) \/ Compare(b, 1)

SpecLine == InitLine /\ [][NextLine]_vars

\* The documents of InitTree in which some parents list has two entries or
\* more, so that it can be written in more than one order; persons 1 and 2
\* are compared, in either role.
InitOrder == InitTree /\ \E i \in DOMAIN people : Len(people[i].parents) >= 2

SpecOrder == InitOrder /\ [][NextTree]_vars

\* Documents with one long line of descent: person i is the child of person
\* i + 1 for i below len, and optionally a side branch, where the last person
\* is a grandchild of person p of the line.  Persons 1 and DeepPeople are
\* compared with everybody, in either role.
DeepPeople == 16     \* persons of such a document

DeepLine(len) == {Entry(DeepPeople, i, i + 1) : i \in 1..(len - 1)}

DeepBranch(p) ==
    IF p = 0 THEN {}
    ELSE {Entry(DeepPeople, DeepPeople, DeepPeople - 1), Entry(DeepPeople, DeepPeople - 1, p)}

InitDeep ==
    \E len \in 1..(DeepPeople - 2), p \in 0..(DeepPeople - 2) :
        /\ p # 1 /\ p <= len
        /\ Loaded(Document(DeepPeople, DeepLine(len) \cup DeepBranch(p), {}))

NextDeep ==
    \E a \in {1, DeepPeople}, b \in DOMAIN people : Compare(a, b) \/ Compare(b, a)

SpecDeep == InitDeep /\ [][NextDeep]_vars

(***************************************************************************)
(* Tree rendering: renderTree and buildNode of the local revision          *)
(* (src/script.js:65-115) and of the API revision (lines 573-684).  Only   *)
(* the calls are kept, the DOM nodes are not.  The graph does not change   *)
(* while the tree is drawn, so a buildNode call for a person whose         *)
(* buildNode call is still active repeats itself without end: the call     *)
(* stack runs out and the engine throws a RangeError.                      *)
(***************************************************************************)
\* buildNode(person), lines 85-115 and 613-684: TRUE when the call returns;
\* stack lists the persons of the active calls
RECURSIVE buildNode(_, _, _)
buildNode(ppl, id, stack) ==
    IF id \in Range(stack) THEN FALSE
    ELSE LET kids == filterExists(ppl[id].children, ppl)
         IN  \A i \in DOMAIN kids : buildNode(ppl, kids[i], Append(stack, id))

\* (r.spouses || []).find(id => exists(id, data) && !(data.people[id].parents || []).length),
\* lines 70 and 589; 0 stands for undefined
RECURSIVE findRootSpouse(_, _)
findRootSpouse(ppl, spouses) ==
    IF spouses = <<>> THEN 0
    ELSE IF exists(Head(spouses), ppl) /\ ppl[Head(spouses)].parents = <<>>
    THEN Head(spouses)
    ELSE findRootSpouse(ppl, Tail(spouses))

\* the loop over rawRoots, lines 69-77 and 588-595: one person of each pair
\* of spouses at the top is kept
RECURSIVE rootsLoop(_, _, _, _)
rootsLoop(ppl, rawRoots, seenPairs, roots) ==
    IF rawRoots = <<>> THEN roots
    ELSE LET r == Head(rawRoots)
             s == findRootSpouse(ppl, ppl[r].spouses)
             key == {r, s}
         IN  IF s # 0 /\ key \in seenPairs
             THEN rootsLoop(ppl, Tail(rawRoots), seenPairs, roots)
             ELSE rootsLoop(ppl, Tail(rawRoots),
                            IF s # 0 THEN seenPairs \cup {key} ELSE seenPairs,
                            Append(roots, r))

\* the persons without parents, in the order of Object.values, lines 67 and 585
rawRootsOf(ppl) ==
    LET keys == KeyOrder(ppl)
        F[i \in 0..Len(keys)] ==
            IF i = 0 THEN <<>>
            ELSE IF ppl[keys[i]].parents = <<>> THEN Append(F[i - 1], keys[i]) ELSE F[i - 1]
    IN  F[Len(keys)]

treeRoots(ppl) == rootsLoop(ppl, rawRootsOf(ppl), {}, <<>>)

\* renderTree() of the local revision, lines 65-82: TRUE when it returns
renderTreeLocal(ppl) ==
    LET roots == treeRoots(ppl)
    IN  \A i \in DOMAIN roots : buildNode(ppl, roots[i], <<>>)

\* renderTree() of the API revision, lines 573-611: TRUE when it returns
renderTreeApi(ppl) ==
    LET roots == treeRoots(ppl)
        keys == KeyOrder(ppl)
    IN  IF keys = <<>> THEN TRUE
        ELSE IF roots = <<>>
        THEN \A i \in DOMAIN keys : buildNode(ppl, keys[i], <<>>)
        ELSE \A i \in DOMAIN roots : buildNode(ppl, roots[i], <<>>)

\* the tree of the loaded graph is drawn by the given revision
Render(revision) ==
    /\ phase = "normalized"
    /\ rev' = revision
    /\ phase' = IF (IF revision = "api" THEN renderTreeApi(people) ELSE renderTreeLocal(people))
                THEN "rendered" ELSE "threw"
    /\ UNCHANGED <<people, hasPeople, runs, before, beforeHas, qa, qb, res>>
    /\ UNCHANGED appVars

NextRender == Render("local") \/ Render("api")

SpecRender == InitRel /\ [][NextRender]_vars

(***************************************************************************)
(* One query followed loop by loop.  relationFromAToB (src/script.js:      *)
(* 258-331) enters its loops in a fixed order: generationsUpTo(aId, bId),  *)
(* generationsUpTo(bId, aId), ancestorMap(a, 8), ancestorMap(b, 8),        *)
(* findPath(a, b).  A step is one iteration of the while loop that is      *)
(* running; walk holds the local variables of that loop (frontier is the   *)
(* queue of findPath) and visits lists the persons the loop has taken from *)
(* its frontier so far.  The call is synchronous, so a loop that can       *)
(* iterate does iterate.  Person 1 is resolved relative to everybody; the  *)
(* documents hold every parent relation over the persons, so every shape   *)
(* of graph and pair occurs with person 1 in the first role.               *)
(***************************************************************************)
appFrame == <<isAdmin, adminKey, serverKey, stored, net, ran, steps>>

\* let frontier=[x]; let visited=new Set([x]); let gen=0, lines 341 and 372-373
upwardFrom(fn, x) == [NoWalk EXCEPT !.fn = fn, !.frontier = <<x>>, !.seen = {x}]

\* return {type, label}: the query is answered; w is the last loop's state
Answers(r, w) ==
    /\ phase' = "answered"
    /\ res' = r
    /\ walk' = [w EXCEPT !.fn = "returned"]

\* the loop goes round again, or the next loop is entered
Continues(w) ==
    /\ phase' = "walking"
    /\ res' = NoResult
    /\ walk' = w

\* compareBtn.onclick up to the first loop of relationFromAToB, lines 243-279
Ask(a, b) ==
    /\ phase = "normalized"
    /\ exists(a, people) /\ exists(b, people)
    /\ qa' = a
    /\ qb' = b
    /\ LET direct == directRelation(people, a, b)
       IN  IF direct # NoResult THEN Answers(direct, NoWalk)
           ELSE Continues(upwardFrom("generationsUpToAB", a))
    /\ UNCHANGED <<people, hasPeople, runs, before, beforeHas, rev>>
    /\ UNCHANGED appFrame

\* relationFromAToB, lines 280-321, from the return of generationsUpTo with
\* value up to the next loop
afterGenerations(up) ==
    IF up > 1 THEN Answers(farRelation(people, qa, qb), walk)
    ELSE IF walk.fn = "generationsUpToAB"
    THEN Continues(upwardFrom("generationsUpToBA", qb))
    ELSE LET collateral == collateralRelation(people, qa, qb)
         IN  IF collateral # NoResult THEN Answers(collateral, walk)
             ELSE Continues(upwardFrom("ancestorMapA", qa))

\* one iteration of the while loop of generationsUpTo, lines 342-351
GenerationsStep ==
    /\ phase = "walking"
    /\ walk.fn \in {"generationsUpToAB", "generationsUpToBA"}
    /\ LET y == IF walk.fn = "generationsUpToAB" THEN qb ELSE qa
       IN  IF walk.frontier = <<>> \/ ~(walk.gen < GenCap) THEN afterGenerations(0)
           ELSE IF y \in Range(walk.frontier) THEN afterGenerations(walk.gen)
           ELSE LET st == expandFrontier(people, walk.frontier,
                                         [next |-> <<>>, seen |-> walk.seen])
                IN  Continues([walk EXCEPT !.frontier = st.next, !.seen = st.seen,
                                           !.gen = @ + 1,
                                           !.visits = @ \o walk.frontier])
    /\ UNCHANGED <<people, hasPeople, runs, before, beforeHas, rev, qa, qb>>
    /\ UNCHANGED appFrame

\* one iteration of the while loop of ancestorMap, lines 374-383; after the
\* second map, cousinLabel lines 357-368 and relationFromAToB lines 323-326
AncestorStep ==
    /\ phase = "walking"
    /\ walk.fn \in {"ancestorMapA", "ancestorMapB"}
    /\ IF walk.frontier = <<>> \/ ~(walk.gen <= AncLimit)
       THEN IF walk.fn = "ancestorMapA"
            THEN Continues(upwardFrom("ancestorMapB", qb))
            ELSE IF cousinLabel(people, qa, qb).found
            THEN Answers(distantRelation(people, qa, qb), walk)
            ELSE Continues(upwardFrom("findPath", qa))
       ELSE LET st == expandFrontier(people, walk.frontier,
                                     [next |-> <<>>, seen |-> walk.seen])
                added == [i \in 1..Len(st.next) |->
                             [id |-> st.next[i], gen |-> walk.gen + 1]]
            IN  Continues([walk EXCEPT !.frontier = st.next, !.seen = st.seen,
                                       !.gen = @ + 1, !.map = @ \o added,
                                       !.visits = @ \o walk.frontier])
    /\ UNCHANGED <<people, hasPeople, runs, before, beforeHas, rev, qa, qb>>
    /\ UNCHANGED appFrame

\* one iteration of the while loop of findPath, lines 389-402, and
\* relationFromAToB lines 327-330
FindPathStep ==
    /\ phase = "walking"
    /\ walk.fn = "findPath"
    /\ IF walk.frontier = <<>> THEN Answers(Result("unrelated", "unrelated", 0), walk)
       ELSE LET cur == Head(walk.frontier)
                neighbors == people[cur].parents \o people[cur].spouses
                                 \o people[cur].children
                st == scanNeighbors(people, qa, qb, cur, neighbors,
                          [queue |-> Tail(walk.frontier), seen |-> walk.seen,
                           prev |-> walk.prev, path |-> <<>>])
                w == [walk EXCEPT !.frontier = st.queue, !.seen = st.seen,
                                  !.prev = st.prev, !.path = st.path,
                                  !.visits = Append(@, cur)]
            IN  IF st.path # <<>> THEN Answers(Result("related", "related", 0), w)
                ELSE Continues(w)
    /\ UNCHANGED <<people, hasPeople, runs, before, beforeHas, rev, qa, qb>>
    /\ UNCHANGED appFrame

NextWalk ==
    \/ \E b \in DOMAIN people : Ask(1, b)
    \/ GenerationsStep
    \/ AncestorStep
    \/ FindPathStep

SpecWalk == InitRel /\ [][NextWalk]_vars /\ WF_vars(NextWalk)

(***************************************************************************)
(* The application around the graph: the handlers that change data, the    *)
(* administrator flag, and the store.  Two clients are kept in             *)
(* src/script.js: the local-storage revision (lines 1-450), whose          *)
(* saveData writes localStorage synchronously, and the API revision        *)
(* (lines 455-1401), whose saveData and loadData fetch /api/data and       *)
(* await the response.  The server is src/api/data.js (blob                *)
(* family-tree-data.json), src/api/save.js and src/api/load.js (blob       *)
(* family/family-data.json) and src/api/admin-login.js.  One fetch is in   *)
(* flight at a time: the user waits for a save or load to finish before    *)
(* the next event.  Photo upload is left out (its await comes before any   *)
(* change of data, src/script.js:898-906).                                 *)
(***************************************************************************)
AppPeople == 2       \* persons of a document persisted or imported at the start
AppEdges == 1        \* parent entries of such a document
MaxSteps == 2        \* user events and foreign requests followed in one run

AppIds == 1..(AppPeople + 1)    \* one id more: a new person, or an unknown id
AdminKeys == {"", "k", "x"}     \* keys and passwords typed or sent ("": none)
ServerKeys == {"", "k"}         \* process.env.ADMIN_KEY ("": not configured)
Stores == {"local", "data", "family"}

Alerts ==
    [saveDenied |-> "You must be logged in as an administrator to save changes.",
     saveFailed |-> "Failed to save family tree data to server.",
     cloudSaved |-> "Data saved to cloud!",
     cloudLoaded |-> "Data loaded from cloud!",
     loadFailed |-> "Failed to load family tree data from server.",
     imported |-> "Data imported and saved remotely!",
     importedLocal |-> "Data imported successfully.",
     invalidJson |-> "Invalid JSON",
     invalidShape |-> "Invalid JSON structure.",
     parseFailed |-> "Failed to parse JSON data",
     pasteFirst |-> "Please paste JSON data into the text area.",
     adminRequired |-> "Admin access required.",
     adminToSave |-> "You must be admin to save changes.",
     adminToDelete |-> "You must be admin to delete.",
     adminToEdit |-> "You must be admin to edit.",
     nameRequired |-> "Name is required.",
     loggedIn |-> "Logged in as admin!",
     wrongPassword |-> "Incorrect password.",
     loginError |-> "Error during admin login",
     loggedOut |-> "Logged out as admin.",
     adminMode |-> "Admin mode enabled",
     wrongLocal |-> "Wrong password"]

\* arr.filter(x => x !== id)
without(arr, id) == SelectSeq(arr, LAMBDA x : x # id)

AppEdgeSet == {Entry(AppPeople, p, q) : p, q \in 1..AppPeople}
AppSpouseChoices ==
    {{}} \cup {{Entry(AppPeople, e[1], e[2])} :
                  e \in {x \in (1..AppPeople) \X (1..AppPeople) : x[1] < x[2]}}

\* the documents a store or a pasted text can hold at the start
AppDocs ==
    {Document(AppPeople, E, Sp) : E \in SubsetsUpTo(AppEdgeSet, AppEdges), Sp \in AppSpouseChoices}

(***************************************************************************)
(* Server handlers.                                                        *)
(***************************************************************************)
\* api/data.js authorizeAdmin: without ADMIN_KEY every request is allowed
authorizeAdmin(sent, expected) ==
    IF expected = "" THEN TRUE ELSE sent = expected

\* api/save.js: if (!adminKey || sentKey !== adminKey) -> 401
saveAuthorized(sent, expected) == ~(expected = "" \/ sent # expected)

\* api/admin-login.js POST: {success}, status
adminLogin(password, expected) ==
    IF expected = "" THEN [success |-> TRUE, status |-> 200]
    ELSE [success |-> password = expected,
          status |-> IF password = expected THEN 200 ELSE 401]

Reply(status, reply) == [net EXCEPT !.status = status, !.reply = reply]

ServerFrame ==
    UNCHANGED <<people, hasPeople, phase, runs, before, beforeHas, rev, qa, qb, res,
                isAdmin, adminKey, serverKey, ran, steps, walk>>

\* api/data.js POST; fail: put throws
ServerPostData(fail) ==
    /\ net.req = "POST" /\ net.to = "data" /\ net.status = 0
    /\ IF ~authorizeAdmin(net.key, serverKey)
       THEN net' = Reply(401, <<>>) /\ stored' = stored
       ELSE IF fail
       THEN net' = Reply(500, <<>>) /\ stored' = stored
       ELSE net' = Reply(200, <<>>) /\ stored' = [stored EXCEPT !["data"] = net.body]
    /\ ServerFrame

\* api/save.js POST; fail: put throws
ServerPostSave(fail) ==
    /\ net.req = "POST" /\ net.to = "save" /\ net.status = 0
    /\ IF ~saveAuthorized(net.key, serverKey)
       THEN net' = Reply(401, <<>>) /\ stored' = stored
       ELSE IF fail
       THEN net' = Reply(500, <<>>) /\ stored' = stored
       ELSE net' = Reply(200, <<>>) /\ stored' = [stored EXCEPT !["family"] = net.body]
    /\ ServerFrame

\* api/data.js GET; fail: get or blob.json throws
ServerGetData(fail) ==
    /\ net.req = "GET" /\ net.to = "data" /\ net.status = 0
    /\ IF fail THEN net' = Reply(500, <<>>)
       ELSE IF stored["data"] = <<>> THEN net' = Reply(404, <<>>)
       ELSE net' = Reply(200, stored["data"])
    /\ stored' = stored
    /\ ServerFrame

\* api/load.js GET: always 200; { people: {} } when there is no blob or on
\* any failure
ServerGetLoad(fail) ==
    /\ net.req = "GET" /\ net.to = "load" /\ net.status = 0
    /\ IF fail \/ stored["family"] = <<>> THEN net' = Reply(200, << <<>> >>)
       ELSE net' = Reply(200, stored["family"])
    /\ stored' = stored
    /\ ServerFrame

(***************************************************************************)
(* Client handlers of the API revision (src/script.js:455-1401).           *)
(***************************************************************************)
\* what a handler did: alerts shown, persist requests issued, the status of
\* the response it received (0: none), and how it ended: "done" (it ran to
\* its last statement), "returned" (an early return or a caught error) or
\* "raised" (an uncaught TypeError)
Ran(op, id, alerts, posts, status, end) ==
    [op |-> op, id |-> id, alerts |-> alerts, posts |-> posts, stored0 |-> stored,
     status |-> status, end |-> end, arg |-> ""]

\* a user event is taken when no handler awaits a fetch and no request is
\* unanswered
Event ==
    /\ phase = "idle"
    /\ net.req = "none" \/ net.status # 0
    /\ steps < MaxSteps
    /\ steps' = steps + 1
    /\ before' = people
    /\ beforeHas' = hasPeople
    /\ UNCHANGED <<runs, rev, serverKey, walk>>

ApiEvent == rev = "api" /\ Event
LocalEvent == rev = "local" /\ Event

\* the handler ends without a fetch
Ends(op, id, alerts, end) ==
    /\ ran' = Ran(op, id, alerts, 0, 0, end)
    /\ net' = NoNet
    /\ phase' = "idle"

\* the import handler ends without a fetch; arg keeps what the pasted text
\* was when it was not a people table
EndsImport(kind, alerts, end) ==
    /\ ran' = [Ran("import", 0, alerts, 0, 0, end) EXCEPT !.arg = kind]
    /\ net' = NoNet
    /\ phase' = "idle"

Request(method, to, key, body) ==
    [req |-> method, to |-> to, key |-> key, body |-> body, status |-> 0, reply |-> <<>>]

\* what the caller of saveData shows once saveData has returned
AfterSave(op) ==
    IF op = "cloudSave" THEN <<Alerts.cloudSaved>>
    ELSE IF op = "import" THEN <<Alerts.imported>>
    ELSE <<>>

\* saveData(), lines 542-556, up to the fetch: ppl is data.people as the
\* caller left it
saveData(op, id, ppl, alerts) ==
    IF ~isAdmin
    THEN Ends(op, id, alerts \o <<Alerts.saveDenied>> \o AfterSave(op), "returned")
    ELSE /\ ran' = Ran(op, id, alerts, 1, 0, "done")
         /\ net' = Request("POST", "data", adminKey, <<ppl>>)
         /\ phase' = "waiting"

\* saveData(), lines 557-568, from the response on, and the rest of its
\* caller; the answered request stays in net until the next fetch
SaveDone ==
    /\ phase = "waiting" /\ net.req = "POST" /\ net.status # 0
    /\ ran' = [ran EXCEPT !.status = net.status,
                          !.alerts = @ \o (IF net.status # 200 THEN <<Alerts.saveFailed>> ELSE <<>>)
                                       \o AfterSave(ran.op)]
    /\ net' = net
    /\ phase' = "idle"
    /\ UNCHANGED <<people, hasPeople, runs, before, beforeHas, rev, qa, qb, res,
                   isAdmin, adminKey, serverKey, stored, steps, walk>>

\* cloudLoadBtn click handler and loadData(), lines 517-519 and 1265-1270,
\* up to the fetch
LoadData ==
    /\ ApiEvent
    /\ ran' = Ran("load", 0, <<>>, 0, 0, "done")
    /\ net' = Request("GET", "data", "", <<>>)
    /\ phase' = "waiting"
    /\ UNCHANGED <<people, hasPeople, qa, qb, res, isAdmin, adminKey, stored>>

\* data after loadData received a response, lines 520-535
loadDataResult(status, reply) ==
    IF status = 200 THEN normalizeDataApi(reply[1]) ELSE <<>>

\* loadData without the 404 branch of lines 521-523: every response that is
\* not ok is thrown and reported
loadAlertsNo404(status) ==
    IF status # 200 THEN <<Alerts.loadFailed>> ELSE <<>>

\* the alert of loadData, lines 520-534
loadAlerts(status) ==
    IF status \notin {200, 404} THEN <<Alerts.loadFailed>> ELSE <<>>

LoadDone ==
    /\ phase = "waiting" /\ net.req = "GET" /\ net.status # 0
    /\ people' = loadDataResult(net.status, net.reply)
    /\ hasPeople' = TRUE
    /\ ran' = [ran EXCEPT !.status = net.status,
                          !.alerts = @ \o loadAlerts(net.status) \o <<Alerts.cloudLoaded>>]
    /\ net' = net
    /\ phase' = "idle"
    /\ UNCHANGED <<runs, before, beforeHas, rev, qa, qb, res,
                   isAdmin, adminKey, serverKey, stored, steps, walk>>

\* cloudSaveBtn click handler, lines 1272-1277
CloudSave ==
    /\ ApiEvent
    /\ saveData("cloudSave", 0, people, <<>>)
    /\ UNCHANGED <<people, hasPeople, qa, qb, res, isAdmin, adminKey, stored>>

\* savePerson(id, isNew), lines 879-924; named: the name field is not empty
SavePerson(id, isNew, named, g) ==
    /\ ApiEvent
    /\ isNew => ~exists(id, people)
    /\ IF ~isAdmin
       THEN Ends("savePerson", id, <<Alerts.adminToSave>>, "returned") /\ people' = people
       ELSE IF ~named
       THEN Ends("savePerson", id, <<Alerts.nameRequired>>, "returned") /\ people' = people
       ELSE IF ~isNew /\ ~exists(id, people)
       THEN Ends("savePerson", id, <<>>, "raised") /\ people' = people
       ELSE LET edited ==
                    IF isNew
                    THEN [k \in DOMAIN people \cup {id} |->
                             IF k = id THEN [EmptyPerson EXCEPT !.gender = g] ELSE people[k]]
                    ELSE [people EXCEPT ![id].gender = g]
                ppl == normalizeDataApi(edited)
            IN  people' = ppl /\ saveData("savePerson", id, ppl, <<>>)
    /\ UNCHANGED <<hasPeople, qa, qb, res, isAdmin, adminKey, stored>>

\* removePerson that filters the id out and keeps the person
removePersonRefsOnly(ppl, id) ==
    [k \in DOMAIN ppl |->
        [ppl[k] EXCEPT !.parents = without(@, id),
                       !.spouses = without(@, id),
                       !.children = without(@, id)]]

\* lines 935-941 of deletePerson: the id is filtered out of every person and
\* the person removed
removePerson(ppl, id) ==
    [k \in DOMAIN ppl \ {id} |->
        [ppl[k] EXCEPT !.parents = without(@, id),
                       !.spouses = without(@, id),
                       !.children = without(@, id)]]

\* deletePerson(id), lines 926-945; confirmed: the answer to confirm()
DeletePerson(id, confirmed) ==
    /\ ApiEvent
    /\ IF ~isAdmin
       THEN Ends("deletePerson", id, <<Alerts.adminToDelete>>, "returned") /\ people' = people
       ELSE IF ~exists(id, people)
       THEN Ends("deletePerson", id, <<>>, "raised") /\ people' = people
       ELSE IF ~confirmed
       THEN Ends("deletePerson", id, <<>>, "returned") /\ people' = people
       ELSE LET ppl == normalizeDataApi(removePerson(people, id))
            IN  people' = ppl /\ saveData("deletePerson", id, ppl, <<>>)
    /\ UNCHANGED <<hasPeople, qa, qb, res, isAdmin, adminKey, stored>>

\* openEdit(id), lines 733-737, as called at the end of the four edge handlers
openEdit == IF ~isAdmin THEN <<Alerts.adminToEdit>> ELSE <<>>

\* addParent(childId), lines 976-983; parentId is the select's value (0: '')
AddParent(childId, parentId) ==
    /\ ApiEvent
    /\ IF parentId = 0 \/ ~exists(parentId, people)
       THEN Ends("addParent", childId, <<>>, "returned") /\ people' = people
       ELSE IF childId = parentId
       THEN Ends("addParent", childId, <<>>, "returned") /\ people' = people
       ELSE IF ~exists(childId, people)
       THEN Ends("addParent", childId, <<>>, "raised") /\ people' = people
       ELSE IF parentId \in Range(people[childId].parents)
       THEN Ends("addParent", childId, <<>>, "returned") /\ people' = people
       ELSE /\ people' = [people EXCEPT ![childId].parents = Append(@, parentId)]
            /\ Ends("addParent", childId, openEdit, "done")
    /\ UNCHANGED <<hasPeople, qa, qb, res, isAdmin, adminKey, stored>>

\* removeParent(childId, parentId), lines 985-988
RemoveParent(childId, parentId) ==
    /\ ApiEvent
    /\ IF ~exists(childId, people)
       THEN Ends("removeParent", childId, <<>>, "raised") /\ people' = people
       ELSE /\ people' = [people EXCEPT ![childId].parents = without(@, parentId)]
            /\ Ends("removeParent", childId, openEdit, "done")
    /\ UNCHANGED <<hasPeople, qa, qb, res, isAdmin, adminKey, stored>>

\* addSpouse(personId), lines 990-997
AddSpouse(personId, spouseId) ==
    /\ ApiEvent
    /\ IF spouseId = 0 \/ ~exists(spouseId, people)
       THEN Ends("addSpouse", personId, <<>>, "returned") /\ people' = people
       ELSE IF personId = spouseId
       THEN Ends("addSpouse", personId, <<>>, "returned") /\ people' = people
       ELSE IF ~exists(personId, people)
       THEN Ends("addSpouse", personId, <<>>, "raised") /\ people' = people
       ELSE IF spouseId \in Range(people[personId].spouses)
       THEN Ends("addSpouse", personId, <<>>, "returned") /\ people' = people
       ELSE /\ people' = [people EXCEPT ![personId].spouses = Append(@, spouseId)]
            /\ Ends("addSpouse", personId, openEdit, "done")
    /\ UNCHANGED <<hasPeople, qa, qb, res, isAdmin, adminKey, stored>>

\* removeSpouse(personId, spouseId), lines 999-1002
RemoveSpouse(personId, spouseId) ==
    /\ ApiEvent
    /\ IF ~exists(personId, people)
       THEN Ends("removeSpouse", personId, <<>>, "raised") /\ people' = people
       ELSE /\ people' = [people EXCEPT ![personId].spouses = without(@, spouseId)]
            /\ Ends("removeSpouse", personId, openEdit, "done")
    /\ UNCHANGED <<hasPeople, qa, qb, res, isAdmin, adminKey, stored>>

\* closeEdit(), lines 845-852: the Cancel button of the edit form
CloseEdit ==
    /\ ApiEvent
    /\ Ends("closeEdit", 0, <<>>, "done")
    /\ UNCHANGED <<people, hasPeople, qa, qb, res, isAdmin, adminKey, stored>>

\* what is pasted into the data box: no text, text that does not parse, the
\* text null, an object without people, or an object with a people table
ImportInputs ==
    {[kind |-> k, people |-> <<>>] : k \in {"empty", "garbage", "null", "noPeople"}}
        \cup {[kind |-> "graph", people |-> d] : d \in AppDocs \cup {<<>>}}

\* importBtn click handler, lines 1292-1314
Import(json) ==
    /\ ApiEvent
    /\ IF ~isAdmin
       THEN EndsImport(json.kind, <<Alerts.adminRequired>>, "returned") /\ people' = people
       ELSE IF json.kind = "empty"
       THEN EndsImport(json.kind, <<Alerts.pasteFirst>>, "returned") /\ people' = people
       ELSE IF json.kind = "garbage"
       THEN EndsImport(json.kind, <<Alerts.parseFailed>>, "returned") /\ people' = people
       ELSE IF json.kind # "graph"
       THEN EndsImport(json.kind, <<Alerts.invalidShape>>, "returned") /\ people' = people
       ELSE LET ppl == normalizeDataApi(json.people)
            IN  people' = ppl /\ saveData("import", 0, ppl, <<>>)
    /\ UNCHANGED <<hasPeople, qa, qb, res, isAdmin, adminKey, stored>>

\* checkAdminStatus(), lines 1073-1094; fail: the fetch throws
CheckAdminStatus(fail) ==
    /\ ApiEvent
    /\ IF adminKey = ""
       THEN UNCHANGED <<isAdmin, adminKey>>
       ELSE IF fail
       THEN isAdmin' = FALSE /\ adminKey' = ""
       ELSE /\ isAdmin' = adminLogin(adminKey, serverKey).success
            /\ adminKey' = IF isAdmin' THEN adminKey ELSE ""
    /\ Ends("checkAdminStatus", 0, <<>>, "done")
    /\ UNCHANGED <<people, hasPeople, qa, qb, res, stored>>

\* loginBtn click handler, lines 1152-1181; password: the prompt's answer
Login(password, fail) ==
    /\ ApiEvent
    /\ IF password = ""
       THEN Ends("login", 0, <<>>, "returned") /\ UNCHANGED <<isAdmin, adminKey>>
       ELSE IF fail \/ adminLogin(password, serverKey).status # 200
       THEN Ends("login", 0, <<Alerts.loginError>>, "returned") /\ UNCHANGED <<isAdmin, adminKey>>
       ELSE /\ isAdmin' = adminLogin(password, serverKey).success
            /\ adminKey' = IF isAdmin' THEN password ELSE adminKey
            /\ Ends("login", 0,
                    IF isAdmin' THEN <<Alerts.loggedIn>> ELSE <<Alerts.wrongPassword>>, "done")
    /\ UNCHANGED <<people, hasPeople, qa, qb, res, stored>>

\* logoutBtn click handler, lines 1184-1192
Logout ==
    /\ ApiEvent
    /\ isAdmin' = FALSE
    /\ adminKey' = ""
    /\ Ends("logout", 0, <<Alerts.loggedOut>>, "done")
    /\ UNCHANGED <<people, hasPeople, qa, qb, res, stored>>

\* the neighbours findRelationship collects for currentId, lines 1049-1055
relNeighbors(ppl, cur) ==
    {n \in DOMAIN ppl :
        \/ n \in Range(ppl[cur].parents)
        \/ n \in Range(ppl[cur].children)
        \/ n \in Range(ppl[cur].spouses)
        \/ cur \in Range(ppl[n].spouses)
        \/ cur \in Range(ppl[n].parents)}

\* the search of lines 1041-1066; only whether idB is met is kept, so the
\* queue is a set
RECURSIVE relSearch(_, _, _, _)
relSearch(ppl, idB, queue, visited) ==
    IF queue = {} THEN FALSE
    ELSE LET cur == CHOOSE x \in queue : TRUE
             ns == relNeighbors(ppl, cur)
         IN  IF idB \in ns THEN TRUE
             ELSE relSearch(ppl, idB, (queue \ {cur}) \cup (ns \ visited), visited \cup ns)

\* findRelationship(idA, idB), lines 1006-1069: the kind of sentence returned
findRelationship(ppl, idA, idB) ==
    IF ~exists(idA, ppl) \/ ~exists(idB, ppl) THEN "null"
    ELSE IF idB \in Range(ppl[idA].parents) THEN "parent"
    ELSE IF idB \in Range(ppl[idA].children) THEN "child"
    ELSE IF idB \in Range(ppl[idA].spouses) THEN "spouse"
    ELSE IF Range(ppl[idA].parents) \cap Range(ppl[idB].parents) # {} THEN "sibling"
    ELSE IF \E p \in Range(ppl[idA].parents) :
                exists(p, ppl) /\ idB \in Range(ppl[p].parents) THEN "grandparent"
    ELSE IF \E c \in Range(ppl[idA].children) :
                exists(c, ppl) /\ idB \in Range(ppl[c].children) THEN "grandchild"
    ELSE IF relSearch(ppl, idB, {idA}, {idA}) THEN "path"
    ELSE "null"

\* findRelationship without the test of line 1007
findRelationshipUnchecked(ppl, idA, idB) ==
    IF ~exists(idA, ppl) \/ ~exists(idB, ppl) THEN "TypeError"
    ELSE findRelationship(ppl, idA, idB)

Rejected(label) == [type |-> "rejected", label |-> label, greats |-> 0, k |-> 0, r |-> 0]
Raised == [type |-> "raised", label |-> "TypeError", greats |-> 0, k |-> 0, r |-> 0]

\* the answer of the compare handler of the API revision, lines 1244-1257
compareApi(ppl, a, b) ==
    IF a = 0 \/ b = 0 \/ a = b THEN Rejected("Please select two different people.")
    ELSE LET relation == findRelationship(ppl, a, b)
         IN  IF relation = "TypeError" THEN Raised
             ELSE IF relation = "null"
             THEN [type |-> "null", label |-> "No direct relationship found.",
                   greats |-> 0, k |-> 0, r |-> 0]
             ELSE [type |-> "relation", label |-> relation, greats |-> 0, k |-> 0, r |-> 0]

\* the compare handler with a normalizeData(data) call before the search
CompareApiNormalizing(a, b) ==
    /\ ApiEvent
    /\ qa' = a /\ qb' = b
    /\ people' = normalizeDataApi(people)
    /\ res' = compareApi(people', a, b)
    /\ Ends("compare", 0, <<>>, IF res' = Raised THEN "raised" ELSE "done")
    /\ UNCHANGED <<hasPeople, isAdmin, adminKey, stored>>

\* compareBtn click handler of the API revision; a, b: the selects' values
\* (0: '')
CompareApi(a, b) ==
    /\ ApiEvent
    /\ qa' = a /\ qb' = b
    /\ res' = compareApi(people, a, b)
    /\ Ends("compare", 0, <<>>, IF res' = Raised THEN "raised" ELSE "done")
    /\ UNCHANGED <<people, hasPeople, isAdmin, adminKey, stored>>

\* any other HTTP client: a POST of the graph { people: {} } or a GET
External(method, to, key) ==
    /\ ApiEvent
    /\ \/ method = "POST" /\ to \in {"data", "save"}
       \/ method = "GET" /\ to \in {"data", "load"} /\ key = ""
    /\ ran' = Ran("external", 0, <<>>, 0, 0, "done")
    /\ net' = Request(method, to, key, IF method = "POST" THEN << <<>> >> ELSE <<>>)
    /\ phase' = "idle"
    /\ UNCHANGED <<people, hasPeople, qa, qb, res, isAdmin, adminKey, stored>>

(***************************************************************************)
(* Client handlers of the local-storage revision (src/script.js:1-450).    *)
(* Once data has no people collection every handler that reads data.people *)
(* raises a TypeError.                                                     *)
(***************************************************************************)
\* saveData(), lines 59-63
saveDataLocal(ppl) == stored' = [stored EXCEPT !["local"] = <<ppl>>]

\* login(), lines 408-416
LoginLocal(pw) ==
    /\ LocalEvent
    /\ isAdmin' = IF pw = "admin" THEN TRUE ELSE isAdmin
    /\ Ends("login", 0, IF pw = "admin" THEN <<Alerts.adminMode>> ELSE <<Alerts.wrongLocal>>, "done")
    /\ UNCHANGED <<people, hasPeople, qa, qb, res, adminKey, stored>>

\* logout(), lines 417-422
LogoutLocal ==
    /\ LocalEvent
    /\ isAdmin' = FALSE
    /\ Ends("logout", 0, <<>>, "done")
    /\ UNCHANGED <<people, hasPeople, qa, qb, res, adminKey, stored>>

\* the parents or spouses picked in the form's multi-select, in option order
FormPicks(ppl) == SubsetsUpTo(DOMAIN ppl, AppEdges)

\* savePerson(id), lines 187-203; an id that is no key stands for the new
\* Date.now() id of savePerson('')
SavePersonLocal(id, g, ps, ss) ==
    /\ LocalEvent
    /\ IF ~hasPeople
       THEN Ends("savePerson", id, <<>>, "raised") /\ UNCHANGED <<people, stored>>
       ELSE LET p == [parents |-> SortedSeq(ps), spouses |-> SortedSeq(ss),
                      children |-> <<>>, gender |-> g]
                ppl == normalizeDataLocal(
                           [k \in DOMAIN people \cup {id} |-> IF k = id THEN p ELSE people[k]])
            IN  /\ people' = ppl
                /\ saveDataLocal(ppl)
                /\ Ends("savePerson", id, <<>>, "done")
    /\ UNCHANGED <<hasPeople, qa, qb, res, isAdmin, adminKey>>

\* deletePerson(id), lines 205-216
DeletePersonLocal(id, confirmed) ==
    /\ LocalEvent
    /\ IF ~confirmed
       THEN Ends("deletePerson", id, <<>>, "returned") /\ UNCHANGED <<people, stored>>
       ELSE IF ~hasPeople
       THEN Ends("deletePerson", id, <<>>, "raised") /\ UNCHANGED <<people, stored>>
       ELSE LET ppl == normalizeDataLocal(removePerson(people, id))
            IN  /\ people' = ppl
                /\ saveDataLocal(ppl)
                /\ Ends("deletePerson", id, <<>>, "done")
    /\ UNCHANGED <<hasPeople, qa, qb, res, isAdmin, adminKey>>

\* importBtn.onclick, lines 440-448: data = json comes before normalizeData,
\* whose TypeError on a missing people collection is caught
ImportLocal(json) ==
    /\ LocalEvent
    /\ IF json.kind \in {"empty", "garbage"}
       THEN /\ EndsImport(json.kind, <<Alerts.invalidJson>>, "returned")
            /\ UNCHANGED <<people, hasPeople, stored>>
       ELSE IF json.kind # "graph"
       THEN /\ people' = <<>>
            /\ hasPeople' = FALSE
            /\ stored' = stored
            /\ EndsImport(json.kind, <<Alerts.invalidJson>>, "returned")
       ELSE LET ppl == normalizeDataLocal(json.people)
            IN  /\ people' = ppl
                /\ hasPeople' = TRUE
                /\ saveDataLocal(ppl)
                /\ Ends("import", 0, <<Alerts.importedLocal>>, "done")
    /\ UNCHANGED <<qa, qb, res, isAdmin, adminKey>>

\* the answer of compareBtn.onclick, lines 243-255
compareLocal(ppl, a, b) ==
    IF a = 0 \/ b = 0 THEN Rejected("Select both people.")
    ELSE IF ~exists(a, ppl) \/ ~exists(b, ppl) THEN Rejected("Unknown selection.")
    ELSE relationFromAToB(ppl, a, b)

\* compareBtn.onclick without the test of line 248: relationFromAToB reads
\* A.spouses of an undefined A
compareLocalUnchecked(ppl, a, b) ==
    IF a = 0 \/ b = 0 THEN Rejected("Select both people.")
    ELSE IF a = b THEN relationFromAToB(ppl, a, b)
    ELSE IF ~exists(a, ppl) \/ ~exists(b, ppl) THEN Raised
    ELSE relationFromAToB(ppl, a, b)

\* compareBtn.onclick, lines 243-255; a, b: the selects' values (0: '')
CompareLocal(a, b) ==
    /\ LocalEvent
    /\ qa' = a /\ qb' = b
    /\ res' = IF ~hasPeople /\ a # 0 /\ b # 0 THEN Raised ELSE compareLocal(people, a, b)
    /\ Ends("compare", 0, <<>>, IF res' = Raised THEN "raised" ELSE "done")
    /\ UNCHANGED <<people, hasPeople, isAdmin, adminKey, stored>>

(***************************************************************************)
(* The application: either client from its start, with the server.         *)
(***************************************************************************)
NoStore == [s \in Stores |-> <<>>]

\* local revision, lines 41-57: data is the normalized localStorage document
\* (or seed), written back by saveData(); isAdmin = false
InitLocal ==
    /\ rev = "local"
    /\ \E doc \in AppDocs :
          /\ people = normalizeDataLocal(doc)
          /\ stored = [NoStore EXCEPT !["local"] = <<people>>]
    /\ adminKey = ""
    /\ serverKey = ""

\* API revision, lines 455-456 and 1397-1398: the state once the
\* DOMContentLoaded handler has run checkAdminStatus() and loadData(); the
\* blob, the server's ADMIN_KEY and the client's stored adminKey are as
\* earlier sessions left them
InitApi ==
    /\ rev = "api"
    /\ serverKey \in ServerKeys
    /\ \E d \in {<<>>} \cup {<<doc>> : doc \in AppDocs} :
          /\ stored = [NoStore EXCEPT !["data"] = d]
          /\ people = loadDataResult(IF d = <<>> THEN 404 ELSE 200, d)
    /\ \E key \in AdminKeys :
          /\ isAdmin = (key # "" /\ adminLogin(key, serverKey).success)
          /\ adminKey = IF isAdmin THEN key ELSE ""

InitApp ==
    /\ \/ InitLocal /\ isAdmin = FALSE
       \/ InitApi
    /\ hasPeople = TRUE
    /\ phase = "idle"
    /\ runs = 0
    /\ before = people
    /\ beforeHas = TRUE
    /\ qa = 0 /\ qb = 0
    /\ res = NoResult
    /\ net = NoNet
    /\ ran = NoOp
    /\ steps = 0
    /\ walk = NoWalk

NextApp ==
    \/ LoadData
    \/ LoadDone
    \/ CloudSave
    \/ SaveDone
    \/ \E id \in AppIds, isNew, named \in BOOLEAN, g \in {"female", "other"} :
          SavePerson(id, isNew, named, g)
    \/ \E id \in AppIds, confirmed \in BOOLEAN : DeletePerson(id, confirmed)
    \/ \E c \in AppIds, p \in AppIds \cup {0} : AddParent(c, p)
    \/ \E c \in AppIds, p \in AppIds : RemoveParent(c, p)
    \/ \E p \in AppIds, s \in AppIds \cup {0} : AddSpouse(p, s)
    \/ \E p \in AppIds, s \in AppIds : RemoveSpouse(p, s)
    \/ CloseEdit
    \/ \E json \in ImportInputs : Import(json)
    \/ \E fail \in BOOLEAN : CheckAdminStatus(fail)
    \/ \E password \in AdminKeys, fail \in BOOLEAN : Login(password, fail)
    \/ Logout
    \/ \E a, b \in AppIds \cup {0} : CompareApi(a, b)
    \/ \E method \in {"GET", "POST"}, to \in {"data", "save", "load"}, key \in AdminKeys :
          External(method, to, key)
    \/ \E fail \in BOOLEAN : ServerPostData(fail)
    \/ \E fail \in BOOLEAN : ServerPostSave(fail)
    \/ \E fail \in BOOLEAN : ServerGetData(fail)
    \/ \E fail \in BOOLEAN : ServerGetLoad(fail)
    \/ \E pw \in {"admin", "x"} : LoginLocal(pw)
    \/ LogoutLocal
    \/ \E id \in AppIds, g \in {"female", "other"}, ps, ss \in FormPicks(people) :
          SavePersonLocal(id, g, ps, ss)
    \/ \E id \in AppIds, confirmed \in BOOLEAN : DeletePersonLocal(id, confirmed)
    \/ \E json \in ImportInputs : ImportLocal(json)
    \/ \E a, b \in AppIds \cup {0} : CompareLocal(a, b)

SpecApp == InitApp /\ [][NextApp]_vars

(***************************************************************************)
(* Properties of a normalized graph.                                       *)
(***************************************************************************)
NoDuplicates(arr) == \A i, j \in DOMAIN arr : arr[i] = arr[j] => i = j

ChildrenOf(ppl, p) == {c \in DOMAIN ppl : p \in Range(ppl[c].parents)}

ChildrenInverse(ppl) ==
    \A p \in DOMAIN ppl :
        /\ Range(ppl[p].children) = ChildrenOf(ppl, p)
        /\ NoDuplicates(ppl[p].children)

SpousesSymmetric(ppl) ==
    \A p, s \in DOMAIN ppl :
        s \in Range(ppl[p].spouses) <=> p \in Range(ppl[s].spouses)

Referenced(ppl) ==
    UNION {Range(ppl[p].parents) \cup Range(ppl[p].spouses) \cup Range(ppl[p].children)
           : p \in DOMAIN ppl}

HasDangling(ppl) == Referenced(ppl) \ DOMAIN ppl # {}

NoDanglingNoDuplicates(ppl) ==
    \A p \in DOMAIN ppl :
        /\ Range(ppl[p].parents) \subseteq DOMAIN ppl
        /\ Range(ppl[p].spouses) \subseteq DOMAIN ppl
        /\ Range(ppl[p].children) \subseteq DOMAIN ppl
        /\ NoDuplicates(ppl[p].parents)
        /\ NoDuplicates(ppl[p].spouses)
        /\ NoDuplicates(ppl[p].children)

\* C1: after normalizeData, every person's children are exactly the persons
\* that list it as a parent, each once, whatever children held before.
C1_ChildrenAreInverseOfParents ==
    phase = "normalized" => ChildrenInverse(people)

\* a first normalization of a graph whose children arrays were wrong
C1_Witness ==
    /\ phase = "normalized" /\ runs = 1
    /\ \E p \in DOMAIN before : Range(before[p].children) # ChildrenOf(before, p)
    /\ \E p \in DOMAIN people : people[p].children # <<>>

\* C2: after normalizeData, s is in p.spouses iff p is in s.spouses, for all
\* existing persons p and s.
C2_SpousesSymmetric ==
    phase = "normalized" => SpousesSymmetric(people)

\* a first normalization of a graph where only one side listed the other
C2_Witness ==
    /\ phase = "normalized" /\ runs = 1
    /\ \E p, s \in DOMAIN before :
          /\ p # s
          /\ s \in Range(before[p].spouses)
          /\ p \notin Range(before[s].spouses)

C4_Idempotent ==
    (phase = "normalized" /\ runs >= 2) => people = before

\* a second normalization, of a graph with a parent cycle (or a person that
\* is its own parent) and a spouse edge
C4_Witness ==
    /\ phase = "normalized" /\ runs = 2
    /\ \E p, q \in DOMAIN people :
          /\ q \in Range(people[p].parents)
          /\ p \in Range(people[q].parents)
    /\ \E p \in DOMAIN people : people[p].spouses # <<>>

\* C5: normalizeData never raises; on a data object without a people
\* collection it substitutes an empty one and completes with zero people.
C5_NeverRaises ==
    (runs >= 1 /\ ~beforeHas) =>
        /\ phase = "normalized"
        /\ hasPeople
        /\ DOMAIN people = {}

(***************************************************************************)
(* Kinship stated on the graph itself, without the resolver's walks.       *)
(***************************************************************************)
ParentSet(ppl, x) == Range(ppl[x].parents)

\* the persons reached from the set S by exactly n parent steps
RECURSIVE UpAt(_, _, _)
UpAt(ppl, S, n) ==
    IF n = 0 THEN S ELSE UpAt(ppl, UNION {ParentSet(ppl, x) : x \in S}, n - 1)

Size(ppl) == Cardinality(DOMAIN ppl)

\* anc is reached from x by one or more parent steps
IsAncestor(ppl, anc, x) == \E n \in 1..Size(ppl) : anc \in UpAt(ppl, {x}, n)

\* the least number of parent steps from x up to y; -1 when there is none
UpDist(ppl, x, y) ==
    IF \E n \in 0..Size(ppl) : y \in UpAt(ppl, {x}, n)
    THEN CHOOSE n \in 0..Size(ppl) :
            /\ y \in UpAt(ppl, {x}, n)
            /\ \A m \in 0..(n - 1) : y \notin UpAt(ppl, {x}, m)
    ELSE -1

ShareParent(ppl, x, y) == ParentSet(ppl, x) \cap ParentSet(ppl, y) # {}

\* the neighbours of x over parent, child and spouse entries, either way
Neighbours(ppl, x) ==
    {y \in DOMAIN ppl :
        \/ y \in Range(ppl[x].parents) \/ x \in Range(ppl[y].parents)
        \/ y \in Range(ppl[x].children) \/ x \in Range(ppl[y].children)
        \/ y \in Range(ppl[x].spouses) \/ x \in Range(ppl[y].spouses)}

RECURSIVE Component(_, _)
Component(ppl, S) ==
    LET T == S \cup UNION {Neighbours(ppl, x) : x \in S}
    IN  IF T = S THEN S ELSE Component(ppl, T)

\* the guard of the i-th rule of relationFromAToB, in the order of the code
Guard(ppl, i, a, b) ==
    CASE i = 1 -> a = b
      [] i = 2 -> b \in Range(ppl[a].spouses)
      [] i = 3 -> a \in ParentSet(ppl, b)
      [] i = 4 -> b \in ParentSet(ppl, a)
      [] i = 5 -> UpDist(ppl, a, b) > 1 /\ UpDist(ppl, a, b) < GenCap
      [] i = 6 -> UpDist(ppl, b, a) > 1 /\ UpDist(ppl, b, a) < GenCap
      [] i = 7 -> ShareParent(ppl, a, b)
      [] i = 8 -> \E p \in ParentSet(ppl, b) : ShareParent(ppl, a, p)
      [] i = 9 -> \E p \in ParentSet(ppl, a) : ShareParent(ppl, b, p)
      [] i = 10 -> cousinLabel(ppl, a, b).found
      [] i = 11 -> b \in Component(ppl, {a})
      [] OTHER -> TRUE

FirstRule(ppl, a, b) == CHOOSE i \in 1..12 : Guard(ppl, i, a, b) /\ \A j \in 1..(i - 1) : ~Guard(ppl, j, a, b)

RuleTypes ==
    <<"self", "spouse", "ancestor", "descendant", "ancestor", "descendant",
      "sibling", "avuncular", "avuncular", "cousin", "related", "unrelated">>

ParentLabels == {"father", "mother", "parent"}
ChildLabels == {"son", "daughter", "child"}
GrandparentLabels == {"grandfather", "grandmother", "grandparent"}
GrandchildLabels == {"grandson", "granddaughter", "grandchild"}
ElderLabels == {"uncle", "aunt", "aunt/uncle"}
YoungerLabels == {"nephew", "niece", "niece/nephew"}

\* the rule a returned {type, label} comes from
RuleOf(rs) ==
    CASE rs.type = "self" -> 1
      [] rs.type = "spouse" -> 2
      [] rs.type = "ancestor" /\ rs.label \in ParentLabels -> 3
      [] rs.type = "descendant" /\ rs.label \in ChildLabels -> 4
      [] rs.type = "ancestor" /\ rs.label \in GrandparentLabels -> 5
      [] rs.type = "descendant" /\ rs.label \in GrandchildLabels -> 6
      [] rs.type = "sibling" -> 7
      [] rs.type = "avuncular" /\ rs.label \in ElderLabels -> 8
      [] rs.type = "avuncular" /\ rs.label \in YoungerLabels -> 9
      [] rs.type = "cousin" -> 10
      [] rs.type = "related" -> 11
      [] rs.type = "unrelated" -> 12
      [] OTHER -> 0

Queried == qa # 0

NoSpouses(ppl) == \A p \in DOMAIN ppl : ppl[p].spouses = <<>>

\* the query is for a grandparent A of C through some B, in a graph without
\* spouse entries where A is no parent of C and C is no ancestor of A
GrandparentQueried ==
    /\ Queried /\ qa # qb
    /\ NoSpouses(people)
    /\ \E m \in DOMAIN people :
          /\ m # qa /\ m # qb
          /\ qa \in ParentSet(people, m)
          /\ m \in ParentSet(people, qb)
    /\ qa \notin ParentSet(people, qb)
    /\ ~IsAncestor(people, qb, qa)

\* C7: when A is a parent of B and B a parent of C, A relative to C is an
\* ancestor, the grandfather / grandmother / grandparent by A's gender, and C
\* relative to A is a descendant, the grandson / granddaughter / grandchild
\* by C's gender.
C7_GrandparentIsAncestor ==
    GrandparentQueried =>
        /\ res.type = "ancestor"
        /\ res.greats = 0
        /\ res.label = byGender(people[qa].gender, "grandfather", "grandmother", "grandparent")
        /\ relationFromAToB(people, qb, qa).type = "descendant"
        /\ relationFromAToB(people, qb, qa).label =
              byGender(people[qb].gender, "grandson", "granddaughter", "grandchild")

\* C8 as claimed: whenever A relative to B is the parent (ancestor at degree
\* 1), B relative to A is the child (descendant at degree 1), parent cycles
\* included.
C8_ParentThenChild_Original ==
    (Queried /\ res.type = "ancestor" /\ res.label \in ParentLabels) =>
        /\ relationFromAToB(people, qb, qa).type = "descendant"
        /\ relationFromAToB(people, qb, qa).label \in ChildLabels

\* C8 as amended: whenever A relative to B is the parent and B is not itself
\* listed as a parent of A, B relative to A is the child, labelled son /
\* daughter / child by B's gender.
C8_ParentThenChild ==
    (Queried /\ res.type = "ancestor" /\ res.label \in ParentLabels
             /\ qb \notin ParentSet(people, qa)) =>
        /\ relationFromAToB(people, qb, qa).type = "descendant"
        /\ relationFromAToB(people, qb, qa).label =
              byGender(people[qb].gender, "son", "daughter", "child")

\* A answered as the parent of B, in a graph with a parent cycle elsewhere
C8_Witness ==
    /\ Queried /\ res.type = "ancestor" /\ res.label \in ParentLabels
    /\ qb \notin ParentSet(people, qa)
    /\ \E x \in DOMAIN people : IsAncestor(people, x, x)

SiblingsQueried ==
    /\ Queried /\ qa # qb
    /\ ShareParent(people, qa, qb)
    /\ qb \notin Range(people[qa].spouses)
    /\ qa \notin Range(people[qb].spouses)
    /\ ~IsAncestor(people, qa, qb)
    /\ ~IsAncestor(people, qb, qa)

\* C9: A and B distinct, sharing a parent, not spouses, neither an ancestor
\* of the other: A relative to B is a sibling, the brother / sister / sibling
\* by A's gender, and B relative to A is a sibling too.
C9_Siblings ==
    SiblingsQueried =>
        /\ res.type = "sibling"
        /\ res.label = byGender(people[qa].gender, "brother", "sister", "sibling")
        /\ relationFromAToB(people, qb, qa).type = "sibling"

C9_Witness ==
    /\ SiblingsQueried
    /\ res.type = "sibling"
    /\ Cardinality(ParentSet(people, qa)) = 2

\* the shortest upward distances to the common ancestors of a and b
CommonAncestors(ppl, a, b) ==
    {c \in DOMAIN ppl : IsAncestor(ppl, c, a) /\ IsAncestor(ppl, c, b)}

GenSum(ppl, a, b, c) == UpDist(ppl, a, c) + UpDist(ppl, b, c)

MinCommon(ppl, a, b) ==
    {c \in CommonAncestors(ppl, a, b) :
        \A d \in CommonAncestors(ppl, a, b) : GenSum(ppl, a, b, c) <= GenSum(ppl, a, b, d)}

NoEarlierRule(ppl, a, b) == \A i \in 1..9 : ~Guard(ppl, i, a, b)

ParentsAreSiblings(ppl, a, b) ==
    \E p \in ParentSet(ppl, a), q \in ParentSet(ppl, b) : p # q /\ ShareParent(ppl, p, q)

\* C10: when no earlier rule matches and A and B have a common ancestor, a
\* cousin result has degree min(genA, genB) - 1 and removal |genA - genB| for
\* a common ancestor of least genA + genB; and when A's parent and B's parent
\* are siblings the result is the cousin labelled 'first cousin' (degree 1,
\* removal 0).
C10_CousinFromNearestCommonAncestor ==
    (Queried /\ NoEarlierRule(people, qa, qb)) =>
        /\ res.type = "cousin" =>
              \E c \in MinCommon(people, qa, qb) :
                  /\ res.k = Min(UpDist(people, qa, c), UpDist(people, qb, c)) - 1
                  /\ res.r = Abs(UpDist(people, qa, c) - UpDist(people, qb, c))
        /\ ParentsAreSiblings(people, qa, qb) =>
              /\ res.type = "cousin"
              /\ res.label = "first cousin"
              /\ res.k = 1 /\ res.r = 0

\* the query is for A and B where B shares a parent with a parent of A and
\* none of the rules before the niece/nephew rule matches
NephewQueried ==
    /\ Queried /\ qa # qb
    /\ Guard(people, 9, qa, qb)
    /\ \A i \in 1..8 : ~Guard(people, i, qa, qb)

\* C11: when B shares a parent with one of A's parents and no earlier rule
\* matches, A relative to B is avuncular, labelled nephew / niece /
\* 'niece/nephew' by A's gender, and B relative to A is avuncular, labelled
\* uncle / aunt / 'aunt/uncle' by B's gender.
C11_Avuncular ==
    NephewQueried =>
        /\ res.type = "avuncular"
        /\ res.label = byGender(people[qa].gender, "nephew", "niece", "niece/nephew")
        /\ relationFromAToB(people, qb, qa).type = "avuncular"
        /\ relationFromAToB(people, qb, qa).label =
              byGender(people[qb].gender, "uncle", "aunt", "aunt/uncle")

\* the niece/nephew rule answered for a nephew whose uncle has two parents
C11_Witness ==
    /\ NephewQueried
    /\ res.type = "avuncular" /\ res.label \in YoungerLabels
    /\ Cardinality(ParentSet(people, qb)) = 2

\* C12: in a normalized graph, for distinct existing persons A and B,
\* relationFromAToB returns type unrelated exactly when B is not reachable
\* from A over parent, child and spouse entries taken in either direction.
C12_UnrelatedIffDisconnected ==
    (Queried /\ qa # qb) =>
        (res.type = "unrelated" <=> qb \notin Component(people, {qa}))

\* A has a relative, B is outside A's component, and the answer is unrelated
C12_Witness ==
    /\ Queried /\ qa # qb
    /\ Neighbours(people, qa) \ {qa} # {}
    /\ qb \notin Component(people, {qa})
    /\ res.type = "unrelated"

Normalized(ppl) ==
    /\ ChildrenInverse(ppl)
    /\ SpousesSymmetric(ppl)
    /\ NoDanglingNoDuplicates(ppl)

\* the answer the compare handler of the running client gives for a and b
answer(ppl, a, b) ==
    IF rev = "local" THEN compareLocal(ppl, a, b) ELSE compareApi(ppl, a, b)

\* the last handler was deletePerson and it carried the deletion out (the
\* confirmation accepted and, in the API revision, the administrator flag set)
Deleted == ran.op = "deletePerson" /\ ran.end = "done"

\* C13: once deletePerson(id) has carried out the deletion, id is no key of
\* the people table, no remaining person lists it as parent, spouse or
\* child, the graph is normalized, and a query for the deleted id and any
\* other id is rejected or answered as not related, never raising.
C13_DeleteLeavesNoTrace ==
    Deleted =>
        /\ ~exists(ran.id, people)
        /\ ran.id \notin Referenced(people)
        /\ Normalized(people)
        /\ \A x \in AppIds :
              /\ answer(people, ran.id, x).type \in {"rejected", "unrelated", "null"}
              /\ answer(people, x, ran.id).type \in {"rejected", "unrelated", "null"}

\* the deleted person was listed by a person that remains
C13_Witness ==
    /\ Deleted
    /\ exists(ran.id, before)
    /\ \E x \in DOMAIN before \ {ran.id} :
          ran.id \in Range(before[x].parents) \cup Range(before[x].spouses)
                        \cup Range(before[x].children)

\* C14: whenever a relationship query or a tree render can be issued (no
\* handler is running), the graph in memory is normalized: children is the
\* exact inverse of parents, spouses is symmetric, no id is dangling.
C14_AlwaysNormalized ==
    (phase = "idle" /\ hasPeople) => Normalized(people)

Mutators ==
    {"savePerson", "deletePerson", "addParent", "removeParent", "addSpouse",
     "removeSpouse", "import"}

\* the last handler was a graph-mutating one, called with isAdmin false
\* (these handlers leave the flag alone)
CalledWithoutAdmin == ran.op \in Mutators /\ ~isAdmin

\* C15: a graph-mutating operation (savePerson, deletePerson, addParent,
\* removeParent, addSpouse, removeSpouse, import) invoked while isAdmin is
\* false leaves the graph in memory unchanged and issues no persist request
\* (no POST, no localStorage write).
C15_NoMutationWithoutAdmin ==
    CalledWithoutAdmin =>
        /\ people = before
        /\ hasPeople = beforeHas
        /\ ran.posts = 0
        /\ stored = ran.stored0

\* a POST has been answered whose key is missing or is not the configured one
BadKeyAnswered ==
    /\ net.req = "POST" /\ net.status # 0
    /\ net.key = "" \/ net.key # serverKey

\* C16: a POST whose admin key is missing or differs from the server's
\* configured key is answered 401 and leaves the stored graphs as they were,
\* for every server configuration, the one without ADMIN_KEY included.
C16_BadKeyIsUnauthorized ==
    BadKeyAnswered =>
        /\ net.status = 401
        /\ stored = ran.stored0

\* the last handler was an import of a text that parsed to a value without a
\* top-level people collection
ImportedWithoutPeople == ran.op = "import" /\ ran.arg \in {"null", "noPeople"}

\* C17: an import whose parsed JSON lacks the top-level people collection is
\* rejected: the graph in memory is the graph of before the attempt and
\* nothing is persisted.
C17_MalformedImportRejected ==
    ImportedWithoutPeople =>
        /\ people = before
        /\ hasPeople = beforeHas
        /\ ran.posts = 0
        /\ stored = ran.stored0

\* saveData has received the response to its POST and the response is a
\* failure (401 Unauthorized or 500 from the store)
SaveFailed ==
    /\ phase = "idle"
    /\ net.req = "POST" /\ ran.posts = 1
    /\ ran.status \in {401, 500}

\* C18: when a persist request fails, the graph in memory keeps the mutation
\* that triggered the save, the persisted graph is unchanged, the failure is
\* reported to the caller (the failure message is shown and no success is
\* announced), and no second request is issued.
C18_FailedSaveKeepsMemory ==
    SaveFailed =>
        /\ <<people>> = net.body
        /\ stored = ran.stored0
        /\ Alerts.saveFailed \in Range(ran.alerts)
        /\ Alerts.cloudSaved \notin Range(ran.alerts)
        /\ Alerts.imported \notin Range(ran.alerts)
        /\ ran.posts = 1

\* loadData has received 404 for its GET
NotFoundOnLoad == ran.op = "load" /\ ran.status = 404

\* C19: when the store has no graph yet (404 on load), loadData leaves the
\* graph in memory equal to the empty graph { people: {} } and the
\* application goes on to a state where queries are answered, without
\* reporting a failure; the answer api/load.js gives for a missing blob leads
\* loadData to the same graph.
C19_NotFoundIsEmptyGraph ==
    /\ NotFoundOnLoad =>
          /\ people = <<>> /\ hasPeople
          /\ phase = "idle"
          /\ Alerts.loadFailed \notin Range(ran.alerts)
          /\ \A a, b \in AppIds : answer(people, a, b).type \in {"rejected", "null"}
    /\ (net.req = "GET" /\ net.to = "load" /\ net.status # 0 /\ stored["family"] = <<>>) =>
          loadDataResult(net.status, net.reply) = <<>>

\* a graph was in memory when the 404 arrived
C19_Witness == NotFoundOnLoad /\ before # <<>> /\ stored["data"] = <<>>

\* C20: a relationship query (the compare handler with relationFromAToB or
\* findRelationship and their helpers) leaves the graph as it was: every
\* person's parents, spouses, children and attributes are the same before and
\* after the call, for every pair of ids, unknown and empty ones included,
\* and nothing is persisted.
C20_QueryLeavesGraphUnchanged ==
    ran.op = "compare" =>
        /\ people = before
        /\ hasPeople = beforeHas
        /\ stored = ran.stored0
        /\ ran.posts = 0

\* a relation was found in a graph that an edge handler left un-normalized
C20_Witness ==
    /\ ran.op = "compare"
    /\ hasPeople /\ ~Normalized(people)
    /\ res.type = "relation"


\* the loop in progress is within its limits: the generation counter is within
\* the cap of its walk, and no person was taken from a frontier or from the
\* queue twice
WalkBounded ==
    /\ walk.fn \in {"generationsUpToAB", "generationsUpToBA"} => walk.gen <= GenCap
    /\ walk.fn \in {"ancestorMapA", "ancestorMapB"} => walk.gen <= AncLimit + 1
    /\ NoDuplicates(walk.visits)
    /\ Range(walk.visits) \subseteq DOMAIN people

\* a person is among its own ancestors
OnParentCycle(ppl, p) == IsAncestor(ppl, p, p)

\* C21: on every finite graph, self-parents and parent cycles included, every
\* relationship query terminates with a result; the upward walks stay within
\* their depth cap and visited set, and the fallback search takes each person
\* from its queue at most once.
C21_QueriesTerminate ==
    /\ [](WalkBounded /\ (phase = "answered" => res.type \in Range(RuleTypes)))
    /\ (phase = "walking" ~> phase = "answered")

\* a query about a person on a parent cycle went through every loop and was
\* answered by the fallback search
C21_Witness ==
    /\ phase = "answered"
    /\ OnParentCycle(people, qa)
    /\ \E p \in DOMAIN people : p \in Range(people[p].parents)
    /\ Len(walk.visits) > 1
    /\ walk.path = <<>>
    /\ res.type = "unrelated"

\* the label table of the gendered results: type, male, female, neutral term
LabelTable ==
    <<[type |-> "spouse", male |-> "husband", female |-> "wife", neutral |-> "spouse"],
      [type |-> "ancestor", male |-> "father", female |-> "mother", neutral |-> "parent"],
      [type |-> "descendant", male |-> "son", female |-> "daughter", neutral |-> "child"],
      [type |-> "ancestor", male |-> "grandfather", female |-> "grandmother",
       neutral |-> "grandparent"],
      [type |-> "descendant", male |-> "grandson", female |-> "granddaughter",
       neutral |-> "grandchild"],
      [type |-> "sibling", male |-> "brother", female |-> "sister", neutral |-> "sibling"],
      [type |-> "avuncular", male |-> "uncle", female |-> "aunt", neutral |-> "aunt/uncle"],
      [type |-> "avuncular", male |-> "nephew", female |-> "niece",
       neutral |-> "niece/nephew"]>>

\* the term of a row for a person of gender g
Column(row, g) ==
    CASE g = "male" -> row.male
      [] g = "female" -> row.female
      [] OTHER -> row.neutral

GenderedTypes == {LabelTable[i].type : i \in DOMAIN LabelTable}

SavedAfterRemoveSpouse ==
    /\ rev = "api"
    /\ ran.op = "removeSpouse" /\ ran.end = "done"
    /\ ran'.op = "savePerson" /\ ran'.id = ran.id /\ ran'.posts = 1

\* the spouses removeSpouse took out of person p's list
RemovedSpouses(p) == Range(before[p].spouses) \ Range(people[p].spouses)

\* C23: when spouse s is removed from person p (removeSpouse) and the person
\* is then saved, which re-normalizes, s is not in p.spouses and p is not in
\* s.spouses: the removal survives the normalization pass.
C23_SpouseRemovalSurvives ==
    [][SavedAfterRemoveSpouse =>
          \A s \in RemovedSpouses(ran.id) :
              /\ s \notin Range(people'[ran.id].spouses)
              /\ exists(s, people') => ran.id \notin Range(people'[s].spouses)]_vars

\* c is a parent of a or of b: min(genA, genB) = 1
ParentOfEither(ppl, a, b, c) == Min(UpDist(ppl, a, c), UpDist(ppl, b, c)) = 1

\* the common ancestor that the scan of cousinLabel settles on
SelectedCommon(ppl, a, b) ==
    bestCommon(ancestorMap(ppl, a, AncLimit), ancestorMap(ppl, b, AncLimit), NoBest)

\* C24: a cousin result never has a degree below 1; when no earlier rule
\* matches and the minimizing common ancestor (the one the scan settles on,
\* and likewise when every common ancestor of least generation sum agrees) is
\* a parent of A or of B, no cousin is returned and the path search answers
\* 'related'.
C24_NoCousinBelowDegreeOne ==
    Queried =>
        /\ res.type = "cousin" => res.k >= 1
        /\ NoEarlierRule(people, qa, qb) =>
              LET best == SelectedCommon(people, qa, qb)
                  least == MinCommon(people, qa, qb)
              IN  /\ (best # NoBest /\ Min(best.genA, best.genB) = 1) =>
                        res.type = "related"
                  /\ (least # {} /\ \A c \in least : ParentOfEither(people, qa, qb, c)) =>
                        res.type = "related"

\* a grand-aunt/uncle pair: B is a sibling of a grandparent of A, three
\* generations against one, answered 'related'
C24_Witness ==
    /\ Queried
    /\ NoEarlierRule(people, qa, qb)
    /\ \E c \in MinCommon(people, qa, qb) :
          UpDist(people, qa, c) = 3 /\ UpDist(people, qb, c) = 1
    /\ res.type = "related"

\* the least number of parent edges of the direct line between a and b, in
\* the direction the resolver tries first; -1 when neither is an ancestor of
\* the other
LineDegree(ppl, a, b) ==
    IF UpDist(ppl, a, b) >= 1 THEN UpDist(ppl, a, b) ELSE UpDist(ppl, b, a)

\* the query is for two persons on a direct line of two or more generations,
\* not spouses
FarLineQueried ==
    /\ Queried /\ qa # qb
    /\ ~Guard(people, 2, qa, qb)
    /\ LineDegree(people, qa, qb) >= 2

\* C25: for a direct-line relation at degree d >= 3, d being the least number
\* of parent edges between the two persons, the label is the grandparent or
\* grandchild term with exactly d - 2 repetitions of 'great-' in front; at
\* degree 2 there is no prefix.
C25_GreatPrefixCount ==
    FarLineQueried =>
        /\ res.type \in {"ancestor", "descendant"}
        /\ res.label \in GrandparentLabels \cup GrandchildLabels
        /\ res.greats = LineDegree(people, qa, qb) - 2

\* two persons three generations apart by the shortest line and four by
\* another: one 'great-'
C25_Witness ==
    /\ FarLineQueried
    /\ LineDegree(people, qa, qb) = 3
    /\ qb \in UpAt(people, {qa}, 4) \/ qa \in UpAt(people, {qb}, 4)
    /\ res.greats = 1

\* the ancestors of x whose least upward distance is between 1 and n
AncestorsWithin(ppl, x, n) == {c \in DOMAIN ppl : UpDist(ppl, x, c) \in 1..n}

\* C26: the ancestor set built for the cousin rule, ancestorMap with limit 8,
\* holds exactly the ancestors at a least upward distance of 1 to 8
\* generations, each tagged with that distance; an ancestor 9 or more
\* generations up is not in it and so produces no cousin result.
C26_AncestorMapWithinEight ==
    (Queried /\ NoEarlierRule(people, qa, qb)) =>
        LET map == ancestorMap(people, qa, AncLimit)
        IN  /\ {map[i].id : i \in DOMAIN map} = AncestorsWithin(people, qa, AncLimit)
            /\ \A i \in DOMAIN map : map[i].gen = UpDist(people, qa, map[i].id)
            /\ res.type = "cousin" =>
                  \E c \in CommonAncestors(people, qa, qb) :
                      /\ UpDist(people, qa, c) <= AncLimit
                      /\ UpDist(people, qb, c) <= AncLimit
                      /\ res.k = Min(UpDist(people, qa, c), UpDist(people, qb, c)) - 1
                      /\ res.r = Abs(UpDist(people, qa, c) - UpDist(people, qb, c))

\* C27: the direct-line walk (generationsUpTo) is depth-limited to 12: for
\* every least parent-edge distance d with 2 <= d <= 12 the direct-line
\* relation is reported, and for a distance above 12 it is not found, so that
\* a later rule answers.
C27_DirectLineWithinTwelve ==
    (Queried /\ qa # qb /\ ~Guard(people, 2, qa, qb)) =>
        LET d == LineDegree(people, qa, qb)
        IN  /\ (2 <= d /\ d <= GenCap) =>
                  /\ res.type \in {"ancestor", "descendant"}
                  /\ res.label \in GrandparentLabels \cup GrandchildLabels
                  /\ res.greats = d - 2
            /\ d > GenCap => res.type \notin {"ancestor", "descendant"}

\* C28: rendering the tree (renderTree calling buildNode over children)
\* terminates for every normalized graph that editing and import can produce,
\* graphs with a self-parent or a cycle of parents included.
C28_RenderTreeTerminates == phase \in {"rendered", "threw"} => phase = "rendered"

\* C29: the cousin result is symmetric: when A relative to B is a cousin of
\* degree k and removal r, B relative to A is a cousin of the same degree and
\* removal, also when several common ancestors tie for the least generation
\* sum with different (genA, genB) splits.
C29_CousinSymmetric ==
    (Queried /\ res.type = "cousin") =>
        LET back == relationFromAToB(people, qb, qa)
        IN  /\ back.type = "cousin"
            /\ back.k = res.k
            /\ back.r = res.r

\* the orders in which the ids of the list s can be written
Perms(s) ==
    LET RECURSIVE OrdersOf(_)
        OrdersOf(S) ==
            IF S = {} THEN {<<>>}
            ELSE UNION {{<<x>> \o q : q \in OrdersOf(S \ {x})} : x \in S}
    IN  OrdersOf(Range(s))

\* s from its last entry to its first
Reverse(s) == [i \in 1..Len(s) |-> s[Len(s) + 1 - i]]

\* the graphs equal to ppl as sets in which the parents lists of the persons
\* in keys are written in any order
RECURSIVE ReorderedParents(_, _)
ReorderedParents(ppl, keys) ==
    IF keys = {} THEN {ppl}
    ELSE LET k == CHOOSE x \in keys : TRUE
         IN  UNION {{[g EXCEPT ![k].parents = q] : q \in Perms(ppl[k].parents)} :
                       g \in ReorderedParents(ppl, keys \ {k})}

\* the same graph after another iteration order of the people table: the
\* children and spouses lists, which normalization fills in that order, are
\* written the other way round
OtherTableOrder(ppl) ==
    [i \in DOMAIN ppl |-> [ppl[i] EXCEPT !.children = Reverse(@), !.spouses = Reverse(@)]]

Reorderings(ppl) ==
    LET G == ReorderedParents(ppl, DOMAIN ppl)
    IN  G \cup {OtherTableOrder(g) : g \in G}

\* C30: for a fixed pair (A, B) the type and the cousin label (degree,
\* removal) returned do not depend on the order of the ids inside any parents
\* list nor on the iteration order of the people table, also when several
\* common ancestors tie for the least generation sum.
C30_OrderIndependent ==
    Queried =>
        \A g \in Reorderings(people) :
            LET other == relationFromAToB(g, qa, qb)
            IN  /\ other.type = res.type
                /\ other.label = res.label
                /\ other.k = res.k
                /\ other.r = res.r

\* a cousin result where two common ancestors tie for the least sum with
\* different splits and a parents list can be written in two orders
C30_Witness ==
    /\ Queried
    /\ res.type = "cousin"
    /\ \E c, d \in MinCommon(people, qa, qb) :
          UpDist(people, qa, c) # UpDist(people, qa, d)
    /\ Cardinality(Reorderings(people)) >= 4
====
